---- MODULE Spec2Model ----
(***************************************************************************)
(* Model of the DFB.net scraper (src/scraper/dfb_scraper.py) as it is run  *)
(* by scrape_matches_with_session (src/main.py): the browser session       *)
(* lifecycle, the login classification, the navigation steps and the       *)
(* per-match modal loop of scrape_all_matches.  The portal is the          *)
(* environment: every Playwright call draws its outcome from the outcomes  *)
(* the call can have.                                                      *)
(***************************************************************************)
EXTENDS Integers, Sequences, FiniteSets, TLC

\* Largest number of list items the assignments page shows.
MaxMatches == 2

\* Largest number of words of a referee header.
MaxTokens == 4

\* Largest length of a kickoff text that is not of the portal's form.
MaxAnpfiff == 4

\* Largest number of sessions of the user who asks for their matches.
MaxSessions == 2

\* Largest number of generation runs that exist side by side.
MaxRuns == 3

\* Largest number of session folders under the output directory.
MaxFolders == 3

\* Largest number of updates of one metadata.json.
MaxUpdates == 3

\* Largest number of word pieces of a Spielklasse that is not a listed name.
MaxPieces == 2

\* Largest number of users of a batch, and of generation processes the API
\* has started that have not ended.
MaxUsers == 3
MaxApiRuns == 5

VARIABLES
    pc,            \* position of the run inside / around the with-block
    playwright,    \* the automation driver process: "none", "running", "stopped"
    browser,       \* the browser process: "none", "running", "closed"
    browserRef,    \* self.browser is set (truthy)
    page,          \* self.page: "none", "first", "tab"
    exc,           \* the exception in flight / that left the block, or "none"
    raisedFrom,    \* the call the exception in flight was raised by
    pageMatches,   \* number of list items the assignments page shows
    anzahl_spiele, \* the count read by get_all_matches
    i,             \* loop index of scrape_all_matches
    match_data,    \* the record being built in the current iteration
    all_matches,   \* the result list
    progress,      \* the calls made to progress_callback, <<current, total>>
    modal,         \* the dialog the portal shows: "none", "info", "referee", "venue"
    threw,         \* <<index, step>> of every modal step that raised (history)
    cbThrew,       \* indexes whose progress callback raised (history)
    stacked,       \* a modal trigger was clicked while a dialog was open (history)
    last,          \* the latest call of the body before the scrape, and how it went
    status,        \* "status" of the session's metadata.json
    written,       \* spesen_data.json has been written
    obs,           \* SpecLogin: what the page shows after the settle wait
    cred,          \* SpecLogin: which credentials are set, and the portal's verdict
    loginResult,   \* SpecLogin: how login() ended, "pending" before the call
    clickObs,      \* SpecClick: what each selector strategy of click_login meets
    clickResult,   \* SpecClick: what click_login did ("tried" 0: not called yet)
    permits,       \* SpecGate: free permits of self.semaphore
    batch,         \* SpecGate: create_sessions_for_all_users is "idle", "running" or "finished"
    task,          \* SpecGate: where the process_user_session task of each user stands
    taskResult,    \* SpecGate: how the task of each user ended, or "none"
    loopOwner,     \* SpecGate: the task that runs on the event loop, 0 when it is free
    hasCreds,      \* SpecGate: the users who stored DFB credentials
    apiRunning,    \* SpecGate: generation processes started by POST /api/generate, not ended
    apiReply,      \* SpecGate: the answer to the latest POST /api/generate
    genEnv,        \* SpecRun: who started the run, and what the portal and the generator do
    genPc,         \* SpecRun: position of the generation run
    genStatus,     \* SpecRun: "status" of the session's metadata.json
    genMatches,    \* SpecRun: length of the scraped list, -1 before the scrape ended
    genFiles,      \* SpecRun: documents generated, -1 before the generation ended
    genTrail,      \* SpecRun: the values the status of metadata.json has taken, in order
    genDb,         \* SpecRun: the status of the session row, "none" without a row
    genFinal,      \* SpecRun: what the generation loop did and what its last update wrote
    header,        \* SpecParse: the words of the header text of a referee item
    parsed,        \* SpecParse: what the header parsing put into referee_data
    exKind,        \* SpecExtract: the extractor called: "match_info", "referee" or "venue"
    exObs,         \* SpecExtract: what reading each field of the open modal meets
    exResult,      \* SpecExtract: what the extractor returned
    listing,       \* SpecList: the matches the page renders, in list order
    lpc,           \* SpecList: position of scrape_all_matches
    lcount,        \* SpecList: anzahl_spiele, the count read at the start
    lidx,          \* SpecList: loop index i
    lrec,          \* SpecList: the match each key of match_data was read from, 0 when not set
    lrecs,         \* SpecList: all_matches
    anpfiff,       \* SpecAnpfiff: the kickoff text, a sequence of words, blanks and separators
    anpResult,     \* SpecAnpfiff: what parse_anpfiff returned
    sessions,      \* SpecMatches: the user's session rows, newest first, each with its folder
    reply,         \* SpecMatches: what GET /api/matches returned
    startedBy,          \* SpecOwn: what started each run, an API process or a scheduler task
    scraper,       \* SpecOwn: each run's DFBScraper, its phase and the browser it launched
    operators,     \* SpecOwn: per open page, the runs that have called a method on it
    madeFor,       \* SpecSessions: per session folder the user it was created for, "" while it does not exist
    rows,          \* SpecSessions: per session id the user_id of its database row, "" without a row
    answer,        \* SpecSessions: the reply to the last request of a session endpoint
    dfb,           \* SpecSessions: per user which of the two credential columns hold a value
    spawned,       \* SpecSessions: the sessions a process or a browser was started for
    meta,          \* SpecMeta: the content of a session's metadata.json
    call,          \* SpecMeta: the arguments of the last update_session_metadata call
    docMatch,      \* SpecDoc: the match record a document is generated for
    spesen,        \* SpecDoc: what calculate_spesen returned for the record
    doc,           \* SpecDoc: the boxes and expense fields generate_document filled
    matches_data,  \* SpecNames: the matches of the session whose documents are generated
    output_dir,    \* SpecNames: the files of the session folder, each with the match it was saved for
    docIdx,        \* SpecNames: the number of matches already generated
    zipRow,        \* SpecZip: the row of the session in the sessions table, or none
    zipDir,        \* SpecZip: the session folder, its DOCX files and its ZIP file
    zipAnswer      \* SpecZip: the answer of the last ZIP download

runVars == <<pc, playwright, browser, browserRef, page, exc, raisedFrom,
             pageMatches, anzahl_spiele, i, match_data, all_matches, progress,
             modal, threw, cbThrew, stacked, last, status, written>>
loginVars == <<obs, cred, loginResult>>
clickVars == <<clickObs, clickResult>>
anpfiffVars == <<anpfiff, anpResult>>
matchesVars == <<sessions, reply>>

ownVars == <<startedBy, scraper, operators>>

sessVars == <<madeFor, rows, answer, dfb, spawned>>

metaVars == <<meta, call>>

docVars == <<docMatch, spesen, doc>>

nameVars == <<matches_data, output_dir, docIdx>>

zipVars == <<zipRow, zipDir, zipAnswer>>

listVars == <<listing, lpc, lcount, lidx, lrec, lrecs>>
extractVars == <<exKind, exObs, exResult>>
parseVars == <<header, parsed>>
genVars == <<genEnv, genPc, genStatus, genMatches, genFiles, genTrail, genDb, genFinal>>
gateVars == <<permits, batch, task, taskResult, loopOwner, hasCreds, apiRunning,
              apiReply>>
vars == <<runVars, loginVars, clickVars, gateVars, genVars, parseVars, extractVars, listVars, anpfiffVars, matchesVars, ownVars, sessVars, metaVars, docVars, nameVars, zipVars>>

\* What the run leaves alone.
offVars == <<loginVars, clickVars, gateVars, genVars, parseVars, extractVars, listVars, anpfiffVars, matchesVars, ownVars, sessVars, metaVars, docVars, nameVars, zipVars>>
flowVars == <<last, status, written>>

----------------------------------------------------------------------------
(* login(): src/scraper/dfb_scraper.py 131-197                              *)

Tri == {"yes", "no", "throws"}

\* What the calls of login() can observe.  form: the credential form appears
\* and fill/submit succeed; onAuth: "auth.dfbnet.org" in page.url; errVisible:
\* error_message.is_visible; errText: inner_text succeeds; pwVisible: the
\* password field's is_visible.
LoginObs ==
    [form : BOOLEAN, onAuth : BOOLEAN, errVisible : Tri, errText : BOOLEAN,
     pwVisible : Tri]

\* username / password are set; accepted is the portal's verdict on the pair.
LoginCred == [username : BOOLEAN, password : BOOLEAN, accepted : BOOLEAN]

LoginResults ==
    {"success", "invalid_portal_text", "invalid_generic", "Exception", "ValueError"}

\* 2. Pruefung (172-182): raises only when the element is visible and its text
\* was read; any other exception of the check is swallowed by the bare except.
ErrorCheckFires(o) == o.errVisible = "yes" /\ o.errText

\* login with the first two checks in the other order.
ChecksSwapped(u, p, o) ==
    IF ~u \/ ~p THEN "ValueError"
    ELSE IF ~o.form THEN "Exception"
    ELSE IF ErrorCheckFires(o) THEN "invalid_portal_text"
    ELSE IF ~o.onAuth THEN "success"
    ELSE IF o.pwVisible = "throws" THEN "Exception"
    ELSE IF o.pwVisible = "yes" THEN "invalid_generic"
    ELSE "success"

\* login (131-197): ValueError without credentials; any exception before the
\* settle wait is re-raised; then the URL check, the error-message check and
\* the password-field check, whose exception is re-raised by the outer handler.
login(u, p, o) ==
    IF ~u \/ ~p THEN "ValueError"
    ELSE IF ~o.form THEN "Exception"
    ELSE IF ~o.onAuth THEN "success"
    ELSE IF ErrorCheckFires(o) THEN "invalid_portal_text"
    ELSE IF o.pwVisible = "throws" THEN "Exception"
    ELSE IF o.pwVisible = "yes" THEN "invalid_generic"
    ELSE "success"

\* The exception type a result of login() stands for.
ExcOf(r) ==
    CASE r \in {"invalid_portal_text", "invalid_generic"} -> "DFBCredentialsInvalidError"
      [] r = "Exception" -> "Exception"
      [] r = "ValueError" -> "ValueError"
      [] OTHER -> "none"

----------------------------------------------------------------------------
(* The run: with DFBScraper(...) as scraper (src/main.py 54-100)            *)

NoData == [spiel_info |-> "unset", schiedsrichter |-> "unset", spielstaette |-> "unset"]

RunInit ==
    /\ pc = "enter"
    /\ playwright = "none"
    /\ browser = "none"
    /\ browserRef = FALSE
    /\ page = "none"
    /\ exc = "none"
    /\ raisedFrom = "none"
    /\ pageMatches \in 0..MaxMatches
    /\ anzahl_spiele = 0
    /\ i = 0
    /\ match_data = NoData
    /\ all_matches = <<>>
    /\ progress = <<>>
    /\ modal = "none"
    /\ threw = {}
    /\ cbThrew = {}
    /\ stacked = FALSE
    /\ last = [call |-> "none", o |-> "none"]
    /\ status = "in_progress"
    /\ written = FALSE

\* The run while another part is looked at on its own.
RunIdle == RunInit /\ pageMatches = 0

LoginIdle ==
    /\ obs = [form |-> TRUE, onAuth |-> FALSE, errVisible |-> "no", errText |-> TRUE,
              pwVisible |-> "no"]
    /\ cred = [username |-> TRUE, password |-> TRUE, accepted |-> TRUE]
    /\ loginResult = "pending"

\* The selector strategies of click_login (102-109), in their order.
NumSelectors == 6

NotClicked == [raised |-> FALSE, clicked |-> 0, tried |-> 0]

ClickIdle ==
    /\ clickObs = [k \in 1..NumSelectors |-> "not_visible"]
    /\ clickResult = NotClicked

\* auto_session_scheduler.py 30: self.max_concurrent.
max_concurrent == 4

Users == 1..MaxUsers

GateIdle ==
    /\ permits = max_concurrent
    /\ batch = "idle"
    /\ task = [u \in Users |-> "none"]
    /\ taskResult = [u \in Users |-> "none"]
    /\ loopOwner = 0
    /\ hasCreds = [u \in Users |-> TRUE]
    /\ apiRunning = 0
    /\ apiReply = "none"

NoScraper == [phase |-> "none", browser |-> 0]

OwnIdle ==
    /\ startedBy = << >>
    /\ scraper = << >>
    /\ operators = << >>

NoAnswer == [endpoint |-> "none", user |-> "", session |-> 0, outcome |-> "none", of |-> {}]

SessIdle ==
    /\ madeFor = << >>
    /\ rows = << >>
    /\ answer = NoAnswer
    /\ dfb = << >>
    /\ spawned = {}

NoCall == [made |-> FALSE, status |-> [given |-> FALSE, value |-> ""],
           files |-> [given |-> FALSE, value |-> << >>],
           progress |-> [given |-> FALSE, value |-> << >>]]

NewMetadata ==
    [session_id |-> "session", created_at |-> 0, status |-> "in_progress", files |-> << >>,
     progress |-> <<0, 0>>, updated_at |-> 0]

MetaIdle ==
    /\ meta = NewMetadata
    /\ call = NoCall

NoAmount == [some |-> FALSE, euro |-> 0]

NoSpesen == [done |-> FALSE, sr |-> NoAmount, sra |-> NoAmount]

NoDoc == [done |-> FALSE, boxes |-> {}, SR_Spesen |-> << >>, SR1_Spesen |-> << >>,
          SR2_Spesen |-> << >>]

DocIdle ==
    /\ docMatch = [spielklasse |-> << >>, mannschaftsart |-> << >>, sra1 |-> "absent",
                   sra2 |-> "absent"]
    /\ spesen = NoSpesen
    /\ doc = NoDoc

NameIdle ==
    /\ matches_data = << >>
    /\ output_dir = {}
    /\ docIdx = 0

NoRow == [some |-> FALSE, user_id |-> "", status |-> ""]

NoDir == [exists |-> FALSE, docx |-> 0, zip |-> FALSE]

NoZipAnswer == [made |-> FALSE, user |-> "", code |-> 0]

ZipIdle ==
    /\ zipRow = NoRow
    /\ zipDir = NoDir
    /\ zipAnswer = NoZipAnswer

NoReply == [done |-> FALSE, matches |-> << >>]

MatchesIdle ==
    /\ sessions = << >>
    /\ reply = NoReply

NotParsedAnpfiff == [done |-> FALSE, raised |-> FALSE, datum |-> << >>, uhrzeit |-> << >>]

AnpfiffIdle ==
    /\ anpfiff = << >>
    /\ anpResult = NotParsedAnpfiff

\* match_data by the match each key was read from.
NoRec == [spiel_info |-> 0, schiedsrichter |-> 0, spielstaette |-> 0]

ListIdle ==
    /\ listing = << >>
    /\ lpc = "count"
    /\ lcount = 0
    /\ lidx = 0
    /\ lrec = NoRec
    /\ lrecs = << >>

\* The keys the three extractors fill, in the order they read them
\* (dfb_scraper.py 364-414, 482-530, 595-625).
InfoFields ==
    <<"anpfiff", "heim_team", "gast_team", "mannschaftsart", "spielklasse", "staffel",
      "spieltag">>
RefereeFields == <<"rolle", "telefon", "email", "strasse", "plz_ort">>
VenueFields == <<"name", "adresse", "platz_typ">>

Range(f) == {f[k] : k \in DOMAIN f}

AllFields == Range(InfoFields) \cup Range(RefereeFields) \cup Range(VenueFields)

NotExtracted == [done |-> FALSE, raised |-> FALSE, fields |-> {}]

ExtractIdle ==
    /\ exKind = "match_info"
    /\ exObs = [f \in AllFields |-> "absent"]
    /\ exResult = NotExtracted

\* referee_data before the header of the item is read.
NotParsed == [done |-> FALSE, appended |-> FALSE, rolle |-> << >>, name |-> << >>]

ParseIdle ==
    /\ header = << >>
    /\ parsed = NotParsed

\* attempts: calls of generate_document; listed: .docx names in files;
\* current: progress.current; -1 before the last update of the generation.
NoFinal == [attempts |-> -1, listed |-> -1, current |-> -1]

GenIdle ==
    /\ genEnv = [kind |-> "api", scrape |-> [raised |-> "before", total |-> 0, matches |-> 0],
                 gen |-> [raised |-> FALSE, docs |-> 0]]
    /\ genPc = "created"
    /\ genStatus = "in_progress"
    /\ genMatches = -1
    /\ genFiles = -1
    /\ genTrail = <<"in_progress">>
    /\ genDb = "pending"
    /\ genFinal = NoFinal

OffIdle == LoginIdle /\ ClickIdle /\ GateIdle /\ GenIdle /\ ParseIdle /\ ExtractIdle /\ ListIdle /\ AnpfiffIdle /\ MatchesIdle /\ OwnIdle /\ SessIdle /\ MetaIdle /\ DocIdle /\ NameIdle /\ ZipIdle

Init == RunInit /\ OffIdle

----------------------------------------------------------------------------
(* start / stop / __enter__ / __exit__: dfb_scraper.py 33-55, 687-694       *)

StartOutcomes == {"driver_fails", "launch_fails", "context_fails", "started"}

\* start(): the driver is started, then the browser is launched and assigned
\* to self.browser, then the context and the page are created.  Nothing is
\* undone when a later step raises.
start(o) ==
    CASE o = "driver_fails" ->
           [playwright |-> "none", browser |-> "none", browserRef |-> FALSE,
            page |-> "none", raised |-> TRUE]
      [] o = "launch_fails" ->
           [playwright |-> "running", browser |-> "none", browserRef |-> FALSE,
            page |-> "none", raised |-> TRUE]
      [] o = "context_fails" ->
           [playwright |-> "running", browser |-> "running", browserRef |-> TRUE,
            page |-> "none", raised |-> TRUE]
      [] OTHER ->
           [playwright |-> "running", browser |-> "running", browserRef |-> TRUE,
            page |-> "first", raised |-> FALSE]

StopOutcomes == {"closed", "close_fails_alive", "close_fails_dead"}

\* stop(): only when self.browser is set; browser.close() and then
\* playwright.stop(), the second not reached when the first raises.
stop(ref, pw, br, o) ==
    IF ~ref THEN [playwright |-> pw, browser |-> br, raised |-> FALSE]
    ELSE IF o = "closed" THEN [playwright |-> "stopped", browser |-> "closed", raised |-> FALSE]
    ELSE [playwright |-> pw,
          browser |-> IF o = "close_fails_dead" THEN "closed" ELSE br,
          raised |-> TRUE]

\* __enter__: start(); an exception of start() leaves the with statement
\* before its body and without __exit__.
Enter ==
    /\ pc = "enter"
    /\ \E o \in StartOutcomes :
         LET r == start(o) IN
           /\ playwright' = r.playwright
           /\ browser' = r.browser
           /\ browserRef' = r.browserRef
           /\ page' = r.page
           /\ pc' = IF r.raised THEN "left" ELSE "mark_scraping"
           /\ exc' = IF r.raised THEN "Exception" ELSE "none"
           /\ raisedFrom' = IF r.raised THEN "start" ELSE "none"
    /\ UNCHANGED <<pageMatches, anzahl_spiele, i, match_data, all_matches, progress,
                   modal, threw, cbThrew, stacked, flowVars, offVars>>

\* __exit__: stop(), whatever way the body ended.
Exit ==
    /\ pc = "exit"
    /\ \E o \in StopOutcomes :
         LET r == stop(browserRef, playwright, browser, o) IN
           /\ playwright' = r.playwright
           /\ browser' = r.browser
           /\ exc' = IF r.raised THEN "Exception" ELSE exc
           /\ raisedFrom' = IF r.raised THEN "stop" ELSE raisedFrom
    /\ pc' = "left"
    /\ UNCHANGED <<browserRef, page, pageMatches, anzahl_spiele, i, match_data,
                   all_matches, progress, modal, threw, cbThrew, stacked, flowVars,
                   offVars>>

----------------------------------------------------------------------------
(* The body of the with-block before the scrape: src/main.py 63-70          *)

scrapeVars == <<pageMatches, anzahl_spiele, i, match_data, all_matches, progress,
                modal, threw, cbThrew, stacked>>
sessionVars == <<playwright, browser, browserRef>>

\* A body call that raised: the exception leaves the with-block body.
Raise(from, type) ==
    /\ pc' = "exit"
    /\ exc' = type
    /\ raisedFrom' = from

Proceed(next) ==
    /\ pc' = next
    /\ UNCHANGED <<exc, raisedFrom>>

\* main.py 57-61: the first statement of the body.
mark_scraping ==
    /\ pc = "mark_scraping"
    /\ status' = "scraping"
    /\ Proceed("open_dfbnet")
    /\ UNCHANGED <<sessionVars, page, scrapeVars, last, written, offVars>>

\* open_dfbnet (57-72): goto raises on a load timeout.
open_dfbnet ==
    /\ pc = "open_dfbnet"
    /\ \/ Proceed("accept_cookies_1") /\ last' = [call |-> "open_dfbnet", o |-> "ok"]
       \/ Raise("open_dfbnet", "Exception")
            /\ last' = [call |-> "open_dfbnet", o |-> "timeout"]
    /\ UNCHANGED <<sessionVars, page, scrapeVars, status, written, offVars>>

\* What accept_cookies can meet: the banner never becomes visible (absent or
\* already dismissed), the click raises, the banner stays after the click, or
\* it is clicked and disappears.
CookieOutcomes == {"absent", "click_fails", "stays", "accepted"}

CookiesRaisesWhenAbsent(o) == o = "absent"

\* accept_cookies (74-94): the whole body is one try; every exception is
\* logged and swallowed (92-94).
accept_cookies_raises(o) == FALSE

accept_cookies ==
    /\ pc \in {"accept_cookies_1", "accept_cookies_2"}
    /\ \E o \in CookieOutcomes :
         /\ last' = [call |-> "accept_cookies", o |-> o]
         /\ IF accept_cookies_raises(o)
            THEN Raise("accept_cookies", "Exception")
            ELSE Proceed(IF pc = "accept_cookies_1" THEN "click_login_1"
                         ELSE "click_login_2")
    /\ UNCHANGED <<sessionVars, page, scrapeVars, status, written, offVars>>

\* One strategy: is_visible is false or raises (the loop continues), or the
\* element is visible and click returns or raises (the loop continues too).
SelectorOutcomes == {"not_visible", "check_throws", "clicked", "click_fails"}

ClickObs == [1..NumSelectors -> SelectorOutcomes]

RECURSIVE TrySelectors(_, _)
\* The for loop 111-122 from strategy k on: the first strategy whose click
\* returned ends the call; 124-125 raise after the last one.
TrySelectors(v, k) ==
    IF k > NumSelectors THEN [raised |-> TRUE, clicked |-> 0, tried |-> NumSelectors]
    ELSE IF v[k] = "clicked" THEN [raised |-> FALSE, clicked |-> k, tried |-> k]
    ELSE TrySelectors(v, k + 1)

ClicksLastMatch(v) ==
    LET C == {k \in 1..NumSelectors : v[k] = "clicked"} IN
      [raised |-> C = {},
       clicked |-> IF C = {} THEN 0 ELSE CHOOSE k \in C : \A j \in C : j <= k,
       tried |-> NumSelectors]

\* click_login (96-129).
click_login_result(v) == TrySelectors(v, 1)

click_login ==
    /\ pc \in {"click_login_1", "click_login_2"}
    /\ \E v \in ClickObs :
         IF click_login_result(v).raised
         THEN /\ Raise("click_login", "Exception")
              /\ last' = [call |-> "click_login", o |-> "raised"]
         ELSE /\ Proceed(IF pc = "click_login_1" THEN "accept_cookies_2" ELSE "login")
              /\ last' = [call |-> "click_login", o |-> "clicked"]
    /\ UNCHANGED <<sessionVars, page, scrapeVars, status, written, offVars>>

\* login as the body calls it: credentials are set (src/main.py 50-52).
LoginStep ==
    /\ pc = "login"
    /\ \E o \in LoginObs :
         LET r == login(TRUE, TRUE, o) IN
           /\ last' = [call |-> "login", o |-> r]
           /\ IF r = "success" THEN Proceed("open_menu_if_needed")
              ELSE Raise("login", ExcOf(r))
    /\ UNCHANGED <<sessionVars, page, scrapeVars, status, written, offVars>>

\* open_menu_if_needed (199-218): never raises.
open_menu_if_needed ==
    /\ pc = "open_menu_if_needed"
    /\ \E o \in {"clicked", "not_visible", "swallowed"} :
         last' = [call |-> "open_menu_if_needed", o |-> o]
    /\ Proceed("navigate_to_schiriansetzung")
    /\ UNCHANGED <<sessionVars, page, scrapeVars, status, written, offVars>>

\* What navigate_to_schiriansetzung can meet: the menu entry or the submenu
\* entry does not become visible, no new tab is opened within the timeout,
\* the new tab does not finish loading in time, or all of it succeeds.
NavOutcomes == {"menu_fails", "submenu_fails", "no_tab", "load_timeout", "ok"}

NavigateSwitchesEarly(pg, o) ==
    [page |-> IF o \in {"ok", "load_timeout"} THEN "tab" ELSE pg, raised |-> o # "ok"]

\* navigate_to_schiriansetzung (220-254): self.page is assigned the new tab
\* (247) after every call that can raise; every exception is re-raised.
navigate(pg, o) == [page |-> IF o = "ok" THEN "tab" ELSE pg, raised |-> o # "ok"]

navigate_to_schiriansetzung ==
    /\ pc = "navigate_to_schiriansetzung"
    /\ \E o \in NavOutcomes :
         LET r == navigate(page, o) IN
           /\ page' = r.page
           /\ last' = [call |-> "navigate_to_schiriansetzung", o |-> o]
           /\ IF r.raised THEN Raise("navigate_to_schiriansetzung", "Exception")
              ELSE Proceed("get_all_matches")
    /\ UNCHANGED <<sessionVars, scrapeVars, status, written, offVars>>

ExceptSwallows(st) == [status |-> st, pc |-> "returned"]

\* main.py 94-100: except Exception: status "failed", then raise.
ExceptFailed(st) == [status |-> "failed", pc |-> "propagated"]

\* The with statement has been left: main.py 92 returned (all_matches,
\* session_path), or the handler 94-100 runs.
leave_with ==
    /\ pc = "left"
    /\ IF exc = "none"
       THEN pc' = "returned" /\ UNCHANGED status
       ELSE LET h == ExceptFailed(status) IN pc' = h.pc /\ status' = h.status
    /\ UNCHANGED <<sessionVars, page, scrapeVars, exc, raisedFrom, last, written,
                   offVars>>

----------------------------------------------------------------------------
(* scrape_all_matches: dfb_scraper.py 634-685                               *)

otherVars == <<sessionVars, page, pageMatches, flowVars, offVars>>

\* get_all_matches (256-278): waits until the first list item is visible,
\* which times out on a page that shows none, and returns the item count.
get_all_matches ==
    /\ pc = "get_all_matches"
    /\ \/ /\ pageMatches >= 1
          /\ anzahl_spiele' = pageMatches
          /\ Proceed("initial_progress")
       \/ /\ Raise("get_all_matches", "Exception")
          /\ UNCHANGED anzahl_spiele
    /\ UNCHANGED <<otherVars, i, match_data, all_matches, progress, modal, threw,
                   cbThrew, stacked>>

LoopEntryInclusive(n, idx) == IF idx <= n THEN "open_info" ELSE "scraped"

\* Where the loop stands when it reaches index idx of n (650).
LoopEntry(n, idx) == IF idx < n THEN "open_info" ELSE "scraped"

\* 646-648: the initial callback, outside the loop's try.
initial_progress ==
    /\ pc = "initial_progress"
    /\ progress' = Append(progress, <<0, anzahl_spiele>>)
    /\ \/ Proceed(LoopEntry(anzahl_spiele, 0))
       \/ Raise("initial_progress", "Exception")
    /\ UNCHANGED <<otherVars, anzahl_spiele, i, match_data, all_matches, modal,
                   threw, cbThrew, stacked>>

\* Handlers that re-raise, or that leave the loop, instead of continuing.
ExceptPropagates(n, idx) == [pc |-> "exit", i |-> idx, exc |-> "Exception"]

ExceptAbortsLoop(n, idx) == [pc |-> "scraped", i |-> idx, exc |-> "none"]

ExceptRetries(n, idx) == [pc |-> LoopEntry(n, idx), i |-> idx, exc |-> "none"]

\* except Exception (679-682): log and continue with the next index.
ExceptContinue(n, idx) == [pc |-> LoopEntry(n, idx + 1), i |-> idx + 1, exc |-> "none"]

\* A modal step of the current match raised: the handler of the loop runs.
MatchRaise(step) ==
    LET h == ExceptContinue(anzahl_spiele, i) IN
      /\ pc' = h.pc
      /\ i' = h.i
      /\ exc' = h.exc
      /\ raisedFrom' = IF h.exc = "none" THEN raisedFrom ELSE step
      /\ threw' = threw \cup {<<i, step>>}
      /\ match_data' = NoData

OpenOutcomes ==
    {"not_found", "not_visible", "click_fails", "modal_timeout", "content_timeout",
     "opened"}

Clicked(o) == o \in {"click_fails", "modal_timeout", "content_timeout", "opened"}

\* The dialog the portal shows after open_*_modal of kind k ended with o while
\* it showed m.  A click with a dialog open is undefined by the portal: either
\* dialog may be the one shown afterwards (shown picks which).
ModalAfterOpen(m, k, o, shown) ==
    IF o \in {"content_timeout", "opened"}
    THEN (IF m = "none" THEN k ELSE shown)
    ELSE m

\* open_mehr_info_modal / open_referee_modal / open_venue_modal (280-313,
\* 425-460, 546-579): raise unless the trigger was found, visible and clicked,
\* the dialog became visible and its key content became visible.
OpenModal(at, k, next) ==
    /\ pc = at
    /\ \E o \in OpenOutcomes, shown \in {modal, k} :
         /\ modal' = ModalAfterOpen(modal, k, o, shown)
         /\ stacked' = (stacked \/ (Clicked(o) /\ modal # "none"))
         /\ IF o = "opened"
            THEN /\ Proceed(next)
                 /\ UNCHANGED <<i, threw, match_data>>
            ELSE MatchRaise(at)
    /\ UNCHANGED <<otherVars, anzahl_spiele, all_matches, progress, cbThrew>>

open_mehr_info_modal == OpenModal("open_info", "info", "extract_info")

open_referee_modal == OpenModal("open_referee", "referee", "extract_referee")

open_venue_modal == OpenModal("open_venue", "venue", "extract_venue")

\* extract_match_info_from_modal / extract_referee_contacts / extract_venue_info
\* (347-423, 462-544, 581-632): never raise; the except path returns the empty
\* structure, which is also what a dialog that is not visible gives.
Extracted(m) == IF m = "none" THEN {"empty"} ELSE {"data", "empty"}

Extract(at, field, next) ==
    /\ pc = at
    /\ \E v \in Extracted(modal) : match_data' = [match_data EXCEPT ![field] = v]
    /\ Proceed(next)
    /\ UNCHANGED <<otherVars, anzahl_spiele, i, all_matches, progress, modal, threw,
                   cbThrew, stacked>>

extract_match_info_from_modal == Extract("extract_info", "spiel_info", "close_info")

extract_referee_contacts == Extract("extract_referee", "schiedsrichter", "close_referee")

extract_venue_info == Extract("extract_venue", "spielstaette", "close_venue")

\* What close_modal meets: which branch the visibility of the close button
\* selects, which call of the try block raises, and what the Escape of the
\* except path does.
CloseOutcomes(m) ==
    [branch : {"button", "escape"},
     fails : {"none", "action"} \cup (IF m = "none" THEN {} ELSE {"hidden_wait"}),
     fallback : {"closes", "no_effect", "raises"}]

\* close_modal (315-345): the try block ends with the dialog hidden; the except
\* path presses Escape and waits one second without looking at the dialog, and
\* an exception of that Escape leaves close_modal.
close_modal(m, o) ==
    IF o.fails = "none" THEN [modal |-> "none", raised |-> FALSE]
    ELSE IF o.fallback = "closes" THEN [modal |-> "none", raised |-> FALSE]
    ELSE IF o.fallback = "no_effect" THEN [modal |-> m, raised |-> FALSE]
    ELSE [modal |-> m, raised |-> TRUE]

CloseModal(at, next) ==
    /\ pc = at
    /\ \E o \in CloseOutcomes(modal) :
         LET r == close_modal(modal, o) IN
           /\ modal' = r.modal
           /\ IF r.raised
              THEN MatchRaise(at)
              ELSE /\ Proceed(next)
                   /\ UNCHANGED <<i, threw, match_data>>
    /\ UNCHANGED <<otherVars, anzahl_spiele, all_matches, progress, cbThrew, stacked>>

close_info_modal == CloseModal("close_info", "open_referee")

close_referee_modal == CloseModal("close_referee", "open_venue")

close_venue_modal == CloseModal("close_venue", "finish_match")

\* 671-677: the record is appended, then the callback is called; an exception
\* of the callback is caught by the loop's handler like any other.  idx notes
\* the list position the record was built for.
finish_match ==
    /\ pc = "finish_match"
    /\ all_matches' = Append(all_matches, [idx |-> i] @@ match_data)
    /\ progress' = Append(progress, <<i + 1, anzahl_spiele>>)
    /\ match_data' = NoData
    /\ \E cbRaises \in BOOLEAN :
         LET h == IF cbRaises THEN ExceptContinue(anzahl_spiele, i)
                  ELSE [pc |-> LoopEntry(anzahl_spiele, i + 1), i |-> i + 1,
                        exc |-> "none"] IN
           /\ pc' = h.pc
           /\ i' = h.i
           /\ exc' = h.exc
           /\ raisedFrom' = IF h.exc = "none" THEN raisedFrom ELSE "progress_callback"
           /\ cbThrew' = IF cbRaises THEN cbThrew \cup {i} ELSE cbThrew
    /\ UNCHANGED <<otherVars, anzahl_spiele, modal, threw, stacked>>

\* 684-685 and src/main.py 84-92: the list is returned, written to
\* spesen_data.json, and the body ends.
return_matches ==
    /\ pc = "scraped"
    /\ written' = TRUE
    /\ Proceed("exit")
    /\ UNCHANGED <<sessionVars, page, scrapeVars, last, status, offVars>>

Next ==
    \/ Enter
    \/ mark_scraping
    \/ open_dfbnet
    \/ accept_cookies
    \/ click_login
    \/ LoginStep
    \/ open_menu_if_needed
    \/ navigate_to_schiriansetzung
    \/ get_all_matches
    \/ initial_progress
    \/ open_mehr_info_modal
    \/ extract_match_info_from_modal
    \/ close_info_modal
    \/ open_referee_modal
    \/ extract_referee_contacts
    \/ close_referee_modal
    \/ open_venue_modal
    \/ extract_venue_info
    \/ close_venue_modal
    \/ finish_match
    \/ return_matches
    \/ Exit
    \/ leave_with

Spec == Init /\ [][Next]_vars

----------------------------------------------------------------------------
(* login() on its own, over every page it can meet                          *)

\* A rejected pair is not redirected off the auth sub-domain; what else the
\* page shows at the end of the settle wait is the portal's.
LoginRest == <<runVars, clickVars, gateVars, genVars, parseVars, extractVars, listVars, anpfiffVars, matchesVars, ownVars, sessVars, metaVars, docVars, nameVars, zipVars>>
LoginRestIdle == RunIdle /\ ClickIdle /\ GateIdle /\ GenIdle /\ ParseIdle /\ ExtractIdle /\ ListIdle /\ AnpfiffIdle /\ MatchesIdle /\ OwnIdle /\ SessIdle /\ MetaIdle /\ DocIdle /\ NameIdle /\ ZipIdle

LoginInit ==
    /\ LoginRestIdle
    /\ obs \in LoginObs
    /\ cred \in LoginCred
    /\ (~cred.accepted => obs.onAuth)
    /\ loginResult = "pending"

Login ==
    /\ loginResult = "pending"
    /\ loginResult' = login(cred.username, cred.password, obs)
    /\ UNCHANGED <<LoginRest, obs, cred>>

NextLogin == Login

SpecLogin == LoginInit /\ [][NextLogin]_vars

----------------------------------------------------------------------------
(* click_login() on its own, over every page it can meet                    *)

ClickRest == <<runVars, loginVars, gateVars, genVars, parseVars, extractVars, listVars, anpfiffVars, matchesVars, ownVars, sessVars, metaVars, docVars, nameVars, zipVars>>
ClickRestIdle == RunIdle /\ LoginIdle /\ GateIdle /\ GenIdle /\ ParseIdle /\ ExtractIdle /\ ListIdle /\ AnpfiffIdle /\ MatchesIdle /\ OwnIdle /\ SessIdle /\ MetaIdle /\ DocIdle /\ NameIdle /\ ZipIdle

ClickInit ==
    /\ ClickRestIdle
    /\ clickObs \in ClickObs
    /\ clickResult = NotClicked

ClickLogin ==
    /\ clickResult = NotClicked
    /\ clickResult' = click_login_result(clickObs)
    /\ UNCHANGED <<ClickRest, clickObs>>

NextClick == ClickLogin

SpecClick == ClickInit /\ [][NextClick]_vars

----------------------------------------------------------------------------
(* The concurrency gate: auto_session_scheduler.py 26-220 and the runs      *)
(* started by main_api.py 198-249                                           *)

GateRest == <<runVars, loginVars, clickVars, genVars, parseVars, extractVars, listVars, anpfiffVars, matchesVars, ownVars, sessVars, metaVars, docVars, nameVars, zipVars>>
GateRestIdle == RunIdle /\ LoginIdle /\ ClickIdle /\ GenIdle /\ ParseIdle /\ ExtractIdle /\ ListIdle /\ AnpfiffIdle /\ MatchesIdle /\ OwnIdle /\ SessIdle /\ MetaIdle /\ DocIdle /\ NameIdle /\ ZipIdle

\* __init__ (26-32): a semaphore of max_concurrent permits; the users of the
\* database, each with or without stored credentials.
GateInit ==
    /\ GateRestIdle
    /\ permits = max_concurrent
    /\ batch = "idle"
    /\ task = [u \in Users |-> "none"]
    /\ taskResult = [u \in Users |-> "none"]
    /\ loopOwner = 0
    /\ hasCreds \in [Users -> BOOLEAN]
    /\ apiRunning = 0
    /\ apiReply = "none"

\* create_sessions_for_all_users (181-204): one task per user, gathered.
StartBatch ==
    /\ batch \in {"idle", "finished"}
    /\ loopOwner = 0
    /\ batch' = "running"
    /\ task' = [u \in Users |-> "pending"]
    /\ taskResult' = [u \in Users |-> "none"]
    /\ UNCHANGED <<GateRest, permits, loopOwner, hasCreds, apiRunning, apiReply>>

\* async with self.semaphore (44), entry: with a free permit acquire() takes
\* it without suspending; the task then owns the event loop, because the body
\* (45-179) contains no await.
Acquire(u) ==
    /\ task[u] = "pending"
    /\ loopOwner = 0
    /\ permits > 0
    /\ permits' = permits - 1
    /\ task' = [task EXCEPT ![u] = "acquired"]
    /\ loopOwner' = u
    /\ UNCHANGED <<GateRest, batch, taskResult, hasCreds, apiRunning, apiReply>>

\* 52-60: no stored credentials: the user is skipped (return inside the
\* async with); 172-179: an exception of the lookup is caught and returned.
GetCredentials(u) ==
    /\ task[u] = "acquired"
    /\ \/ /\ hasCreds[u]
          /\ task' = [task EXCEPT ![u] = "scraping"]
          /\ UNCHANGED taskResult
       \/ /\ ~hasCreds[u]
          /\ task' = [task EXCEPT ![u] = "leaving"]
          /\ taskResult' = [taskResult EXCEPT ![u] = "no_credentials"]
       \/ /\ task' = [task EXCEPT ![u] = "leaving"]
          /\ taskResult' = [taskResult EXCEPT ![u] = "error"]
    /\ UNCHANGED <<GateRest, permits, batch, loopOwner, hasCreds, apiRunning, apiReply>>

BodyResultsEscaping == {"scrape_error", "no_matches", "error", "completed", "raised"}

\* How the rest of the body (66-179) can end: the scrape raises (112-119,
\* re-raised into 172-179), it finds no match (95-108), another statement
\* raises (172-179), or the documents are generated (163-170).
BodyResults == {"scrape_error", "no_matches", "error", "completed"}

RunSession(u) ==
    /\ task[u] = "scraping"
    /\ \E r \in BodyResults : taskResult' = [taskResult EXCEPT ![u] = r]
    /\ task' = [task EXCEPT ![u] = "leaving"]
    /\ UNCHANGED <<GateRest, permits, batch, loopOwner, hasCreds, apiRunning, apiReply>>

ReleaseUnlessRaised(p, r) == IF r \in {"scrape_error", "error"} THEN p ELSE p + 1

\* async with self.semaphore (44), exit: release() on every way out of the
\* body, a return as well as an exception.
release(p, r) == p + 1

Release(u) ==
    /\ task[u] = "leaving"
    /\ permits' = release(permits, taskResult[u])
    /\ task' = [task EXCEPT ![u] = "done"]
    /\ loopOwner' = 0
    /\ UNCHANGED <<GateRest, batch, taskResult, hasCreds, apiRunning, apiReply>>

\* 204-218: gather has every result; the batch is over.
FinishBatch ==
    /\ batch = "running"
    /\ loopOwner = 0
    /\ \A u \in Users : task[u] = "done"
    /\ batch' = "finished"
    /\ UNCHANGED <<GateRest, permits, task, taskResult, loopOwner, hasCreds, apiRunning,
                   apiReply>>

\* generate_spesen (main_api.py 198-249), a coroutine of the same event loop:
\* without credentials CredentialsMissingError, else a new
\* multiprocessing.Process is started; the semaphore is not touched.
ApiGenerate(u) ==
    /\ loopOwner = 0
    /\ IF hasCreds[u]
       THEN /\ apiRunning < MaxApiRuns
            /\ apiRunning' = apiRunning + 1
            /\ apiReply' = "in_progress"
       ELSE /\ apiReply' = "credentials_missing"
            /\ UNCHANGED apiRunning
    /\ UNCHANGED <<GateRest, permits, batch, task, taskResult, loopOwner, hasCreds>>

\* run_generation_process (main_api.py 132-197) returns: the process ends.
ApiRunEnds ==
    /\ apiRunning > 0
    /\ apiRunning' = apiRunning - 1
    /\ UNCHANGED <<GateRest, permits, batch, task, taskResult, loopOwner, hasCreds,
                   apiReply>>

NextGate ==
    \/ StartBatch
    \/ \E u \in Users : Acquire(u)
    \/ \E u \in Users : GetCredentials(u)
    \/ \E u \in Users : RunSession(u)
    \/ \E u \in Users : Release(u)
    \/ FinishBatch
    \/ \E u \in Users : ApiGenerate(u)
    \/ ApiRunEnds

SpecGate == GateInit /\ [][NextGate]_vars

----------------------------------------------------------------------------
(* One generation run, started by POST /api/generate (main_api.py 132-197)  *)
(* or by the scheduler (auto_session_scheduler.py 66-179)                   *)

RunRest == <<runVars, loginVars, clickVars, gateVars, parseVars, extractVars, listVars, anpfiffVars, matchesVars, ownVars, sessVars, metaVars, docVars, nameVars, zipVars>>
RunRestIdle == RunIdle /\ LoginIdle /\ ClickIdle /\ GateIdle /\ ParseIdle /\ ExtractIdle /\ ListIdle /\ AnpfiffIdle /\ MatchesIdle /\ OwnIdle /\ SessIdle /\ MetaIdle /\ DocIdle /\ NameIdle /\ ZipIdle

\* How the scrape of a run ends: an exception "before" the list is counted,
\* the list of the extracted matches (of total listed ones), or that list and
\* an exception "after" the loop, from closing the browser.
ScrapeEnds ==
    {[raised |-> "before", total |-> 0, matches |-> 0]}
    \cup {[raised |-> r, total |-> n, matches |-> k] :
            r \in {"no", "after"}, n \in 1..MaxMatches, k \in 0..MaxMatches}

\* What the generator does: its constructor raises, or it writes docs of the
\* documents (a document that fails is skipped).
GenEnds == [raised : BOOLEAN, docs : 0..MaxMatches]

GenReached(e) == e.scrape.raised = "no" /\ e.scrape.matches >= 1

\* A session as create_session (session_manager.py 63-97) leaves it.
GenInit ==
    /\ RunRestIdle
    /\ genEnv \in [kind : {"api", "scheduler"}, scrape : ScrapeEnds, gen : GenEnds]
    /\ genEnv.scrape.matches <= genEnv.scrape.total
    /\ IF GenReached(genEnv)
       THEN /\ genEnv.gen.docs <= genEnv.scrape.matches
            /\ genEnv.gen.raised => genEnv.gen.docs = 0
       ELSE genEnv.gen = [raised |-> FALSE, docs |-> 0]
    /\ genPc = "created"
    /\ genStatus = "in_progress"
    /\ genMatches = -1
    /\ genFiles = -1
    /\ genTrail = <<"in_progress">>
    /\ genDb = IF genEnv.kind = "api" THEN "pending" ELSE "none"
    /\ genFinal = NoFinal

\* update_session_metadata (session_manager.py 99-131) with a status: the
\* value replaces the one of metadata.json.
follow(trail, st) == IF trail[Len(trail)] = st THEN trail ELSE Append(trail, st)

\* main_api.py 143-148.
ApiMarkScraping ==
    /\ genEnv.kind = "api"
    /\ genPc = "created"
    /\ genStatus' = "scraping"
    /\ genTrail' = follow(genTrail, "scraping")
    /\ genDb' = "scraping"
    /\ genPc' = "scrape"
    /\ UNCHANGED <<RunRest, genEnv, genMatches, genFiles, genFinal>>

\* main_api.py 151-174 and 176-180: scrape_matches_with_session with the
\* credentials of the request; an exception (its handler has set "failed")
\* and an empty list both end in the handler 176-180.
ApiScrape ==
    /\ genEnv.kind = "api"
    /\ genPc = "scrape"
    /\ LET e == genEnv.scrape IN
         /\ genMatches' = IF e.raised = "before" THEN -1 ELSE e.matches
         /\ IF e.raised = "no" /\ e.matches >= 1
            THEN genStatus' = "generating" /\ genPc' = "generate"
            ELSE genStatus' = "failed" /\ genPc' = "done"
    /\ genTrail' = follow(genTrail, genStatus')
    /\ genDb' = genStatus'
    /\ UNCHANGED <<RunRest, genEnv, genFiles, genFinal>>

\* main.py 128-158: one generate_document per match, a failure is skipped;
\* files are the written documents (and spesen_data.json), progress.current
\* is len(matches_data).
api_final(matches, docs) == [attempts |-> matches, listed |-> docs, current |-> matches]

\* auto_session_scheduler.py 131-159: one generate_document per match, a
\* failure is skipped; files are the written documents, progress.current is
\* len(generated_files).
sched_final(matches, docs) == [attempts |-> matches, listed |-> docs, current |-> docs]

\* main_api.py 165-172: generate_documents_in_session (main.py 103-162), then
\* "completed"; the constructor of the generator is outside every try of
\* main.py, so its exception reaches the handler 176-180.
ApiDocuments ==
    /\ genEnv.kind = "api"
    /\ genPc = "generate"
    /\ IF genEnv.gen.raised
       THEN genStatus' = "failed" /\ UNCHANGED <<genFiles, genFinal>>
       ELSE /\ genStatus' = "completed"
            /\ genFiles' = genEnv.gen.docs
            /\ genFinal' = api_final(genMatches, genEnv.gen.docs)
    /\ genTrail' = follow(genTrail, genStatus')
    /\ genDb' = genStatus'
    /\ genPc' = "done"
    /\ UNCHANGED <<RunRest, genEnv, genMatches>>

\* auto_session_scheduler.py 67-75.
SchedMarkScraping ==
    /\ genEnv.kind = "scheduler"
    /\ genPc = "created"
    /\ genStatus' = "scraping"
    /\ genTrail' = follow(genTrail, "scraping")
    /\ genPc' = "scrape"
    /\ UNCHANGED <<RunRest, genEnv, genMatches, genFiles, genDb, genFinal>>

\* auto_session_scheduler.py 95-101: the status of a session whose scrape
\* returned an empty list.
SchedEmpty == "completed"

\* auto_session_scheduler.py 86-126: login and scrape inside the with; an
\* empty list returns from inside it (95-108); an exception, that of
\* __exit__ included, sets "error" (112-119) and is returned by 172-179.
SchedScrape ==
    /\ genEnv.kind = "scheduler"
    /\ genPc = "scrape"
    /\ LET e == genEnv.scrape IN
         /\ genMatches' = IF e.raised = "before" THEN -1 ELSE e.matches
         /\ IF e.raised # "no"
            THEN genStatus' = "error" /\ genPc' = "done"
            ELSE IF e.matches = 0
            THEN genStatus' = SchedEmpty /\ genPc' = "done"
            ELSE genStatus' = "generating" /\ genPc' = "generate"
         /\ genTrail' =
              IF e.raised = "after" /\ e.matches = 0
              THEN follow(follow(genTrail, SchedEmpty), "error")
              ELSE follow(genTrail, genStatus')
    /\ UNCHANGED <<RunRest, genEnv, genFiles, genDb, genFinal>>

\* auto_session_scheduler.py 128-170: an exception of the constructor goes to
\* 172-179, which leaves metadata.json as it is.
SchedDocuments ==
    /\ genEnv.kind = "scheduler"
    /\ genPc = "generate"
    /\ IF genEnv.gen.raised
       THEN UNCHANGED <<genStatus, genFiles, genFinal>>
       ELSE /\ genStatus' = "completed"
            /\ genFiles' = genEnv.gen.docs
            /\ genFinal' = sched_final(genMatches, genEnv.gen.docs)
    /\ genTrail' = follow(genTrail, genStatus')
    /\ genPc' = "done"
    /\ UNCHANGED <<RunRest, genEnv, genMatches, genDb>>

NextRun ==
    \/ ApiMarkScraping
    \/ ApiScrape
    \/ ApiDocuments
    \/ SchedMarkScraping
    \/ SchedScrape
    \/ SchedDocuments

SpecRun == GenInit /\ [][NextRun]_vars

----------------------------------------------------------------------------
(* The header of a referee item: dfb_scraper.py 483-497, 532-533            *)

ParseRest == <<runVars, loginVars, clickVars, gateVars, genVars, extractVars, listVars, anpfiffVars, matchesVars, ownVars, sessVars, metaVars, docVars, nameVars, zipVars>>
ParseRestIdle == RunIdle /\ LoginIdle /\ ClickIdle /\ GateIdle /\ GenIdle /\ ExtractIdle /\ ListIdle /\ AnpfiffIdle /\ MatchesIdle /\ OwnIdle /\ SessIdle /\ MetaIdle /\ DocIdle /\ NameIdle /\ ZipIdle

\* The words a header is made of; a text is the sequence of its words.
Tokens == {"SR", "SRA", "Beo", "1", "2", "Jan", "Vogt"}

Headers == UNION {[1..n -> Tokens] : n \in 0..MaxTokens}

\* header_text.split(maxsplit=2) (487): at most three parts, the third one
\* the whole rest of the text.
split(h) ==
    IF Len(h) <= 2 THEN [k \in 1..Len(h) |-> <<h[k]>>]
    ELSE << <<h[1]>>, <<h[2]>>, SubSeq(h, 3, Len(h)) >>

RECURSIVE join(_)
\* ' '.join(parts)
join(parts) == IF parts = << >> THEN << >> ELSE Head(parts) \o join(Tail(parts))

\* 488-497 and 532-533: rolle and name are set for a text of two or more
\* parts that starts with SR, SRA or Beo; the item is appended when rolle is
\* set.
parse_header(h) ==
    LET parts == split(h) IN
      IF Len(parts) >= 2 /\ parts[1] \in {<<"SR">>, <<"SRA">>, <<"Beo">>}
      THEN IF parts[1] = <<"SRA">> /\ Len(parts) >= 3
           THEN [done |-> TRUE, appended |-> TRUE, rolle |-> parts[1] \o parts[2],
                 name |-> parts[3]]
           ELSE [done |-> TRUE, appended |-> TRUE, rolle |-> parts[1],
                 name |-> join(Tail(parts))]
      ELSE [done |-> TRUE, appended |-> FALSE, rolle |-> << >>, name |-> << >>]

ParseInit ==
    /\ ParseRestIdle
    /\ header \in Headers
    /\ parsed = NotParsed

ParseHeader ==
    /\ ~parsed.done
    /\ parsed' = parse_header(header)
    /\ UNCHANGED <<ParseRest, header>>

NextParse == ParseHeader

SpecParse == ParseInit /\ [][NextParse]_vars

----------------------------------------------------------------------------
(* The three extractors over the fields of an open modal:                   *)
(* dfb_scraper.py 347-423, 462-544, 581-632                                 *)

ExtractRest == <<runVars, loginVars, clickVars, gateVars, genVars, parseVars, listVars, anpfiffVars, matchesVars, ownVars, sessVars, metaVars, docVars, nameVars, zipVars>>
ExtractRestIdle ==
    RunIdle /\ LoginIdle /\ ClickIdle /\ GateIdle /\ GenIdle /\ ParseIdle /\ ListIdle
      /\ AnpfiffIdle /\ MatchesIdle /\ OwnIdle /\ SessIdle /\ MetaIdle /\ DocIdle
      /\ NameIdle /\ ZipIdle

\* Reading one field: its element is visible and inner_text returns, it is
\* not visible, or a call on it raises.
FieldOutcomes == {"present", "absent", "fails"}

FieldsOf(kind) ==
    CASE kind = "match_info" -> InfoFields
      [] kind = "referee" -> RefereeFields
      [] OTHER -> VenueFields

RECURSIVE read_fields(_, _)
\* The guarded reads of one try block, in order: a field that is not visible
\* is left out, a call that raises leaves the block.
read_fields(fs, o) ==
    IF fs = << >> THEN [raised |-> FALSE, fields |-> {}]
    ELSE IF o[Head(fs)] = "fails" THEN [raised |-> TRUE, fields |-> {}]
    ELSE LET r == read_fields(Tail(fs), o) IN
           IF r.raised THEN r
           ELSE [raised |-> FALSE,
                 fields |-> (IF o[Head(fs)] = "present" THEN {Head(fs)} ELSE {}) \cup r.fields]

\* extract_match_info_from_modal (354-423): one try around all reads, whose
\* except returns {}.
match_info(o) ==
    LET r == read_fields(InfoFields, o) IN
      [done |-> TRUE, raised |-> FALSE, fields |-> IF r.raised THEN {} ELSE r.fields]

\* extract_venue_info (588-632): one try around all reads, whose except
\* returns {}.
venue_info(o) ==
    LET r == read_fields(VenueFields, o) IN
      [done |-> TRUE, raised |-> FALSE, fields |-> IF r.raised THEN {} ELSE r.fields]

\* extract_referee_contacts (479-536) for one item: a try per item, whose
\* except drops the item; the item is appended when it has a rolle.
referee_data(o) ==
    LET r == read_fields(RefereeFields, o) IN
      [done |-> TRUE, raised |-> FALSE,
       fields |-> IF ~r.raised /\ "rolle" \in r.fields THEN r.fields ELSE {}]

ExtractInit ==
    /\ ExtractRestIdle
    /\ exKind \in {"match_info", "referee", "venue"}
    /\ exObs \in [AllFields -> FieldOutcomes]
    /\ \A f \in AllFields \ Range(FieldsOf(exKind)) : exObs[f] = "absent"
    /\ exResult = NotExtracted

ExtractMatchInfo ==
    /\ exKind = "match_info"
    /\ ~exResult.done
    /\ exResult' = match_info(exObs)
    /\ UNCHANGED <<ExtractRest, exKind, exObs>>

ExtractReferee ==
    /\ exKind = "referee"
    /\ ~exResult.done
    /\ exResult' = referee_data(exObs)
    /\ UNCHANGED <<ExtractRest, exKind, exObs>>

ExtractVenue ==
    /\ exKind = "venue"
    /\ ~exResult.done
    /\ exResult' = venue_info(exObs)
    /\ UNCHANGED <<ExtractRest, exKind, exObs>>

NextExtract ==
    \/ ExtractMatchInfo
    \/ ExtractReferee
    \/ ExtractVenue

SpecExtract == ExtractInit /\ [][NextExtract]_vars

----------------------------------------------------------------------------
(* scrape_all_matches over a list the portal may re-render:                 *)
(* dfb_scraper.py 280-292, 425-435, 546-556, 643-685                        *)

ListRest == <<runVars, loginVars, clickVars, gateVars, genVars, parseVars, extractVars, anpfiffVars, matchesVars, ownVars, sessVars, metaVars, docVars, nameVars, zipVars>>
ListRestIdle ==
    RunIdle /\ LoginIdle /\ ClickIdle /\ GateIdle /\ GenIdle /\ ParseIdle /\ ExtractIdle
      /\ AnpfiffIdle /\ MatchesIdle /\ OwnIdle /\ SessIdle /\ MetaIdle /\ DocIdle
      /\ NameIdle /\ ZipIdle

\* The matches of the portal, and the lists it can render: any of them, in
\* any order, each at most once.
MatchIds == 1..MaxMatches

Listings ==
    {l \in UNION {[1..n -> MatchIds] : n \in 0..MaxMatches} :
       \A j, k \in DOMAIN l : j # k => l[j] # l[k]}

ListInit ==
    /\ ListRestIdle
    /\ listing \in Listings
    /\ lpc = "count"
    /\ lcount = 0
    /\ lidx = 0
    /\ lrec = NoRec
    /\ lrecs = << >>

\* The portal re-renders the list (reload, reorder, shrink, grow) while the
\* scrape runs.
ListChanges ==
    /\ lpc \in {"open_info", "open_referee", "open_venue"}
    /\ \E l \in Listings \ {listing} : listing' = l
    /\ UNCHANGED <<ListRest, lpc, lcount, lidx, lrec, lrecs>>

\* get_all_matches (256-278) as called at 644: the count of the items, read
\* once; it raises on a page without a visible item.
ListCount ==
    /\ lpc = "count"
    /\ IF Len(listing) >= 1
       THEN lcount' = Len(listing) /\ lpc' = "open_info"
       ELSE lpc' = "raised" /\ UNCHANGED lcount
    /\ UNCHANGED <<ListRest, listing, lidx, lrec, lrecs>>

\* match_containers[index] (292, 437, 558) of the list queried anew by each
\* open step (286, 431, 552).
container(l, index) == l[index + 1]

\* An open step and the extraction that follows it: the step raises for an
\* index not below the length of the list as it is now (288-289) or when the
\* modal does not open, and the handler 679-682 goes on to the next index;
\* else the modal of the container at the index is read.
ListOpen(at, key, next) ==
    /\ lpc = at
    /\ \/ /\ lidx < Len(listing)
          /\ lrec' = [lrec EXCEPT ![key] = container(listing, lidx)]
          /\ lpc' = next
          /\ UNCHANGED lidx
       \/ /\ lrec' = NoRec
          /\ lidx' = lidx + 1
          /\ lpc' = IF lidx + 1 < lcount THEN "open_info" ELSE "returned"
    /\ UNCHANGED <<ListRest, listing, lcount, lrecs>>

list_open_info == ListOpen("open_info", "spiel_info", "open_referee")

list_open_referee == ListOpen("open_referee", "schiedsrichter", "open_venue")

list_open_venue == ListOpen("open_venue", "spielstaette", "append")

\* 671: the record is appended; 650: the next index.
ListAppend ==
    /\ lpc = "append"
    /\ lrecs' = Append(lrecs, lrec)
    /\ lrec' = NoRec
    /\ lidx' = lidx + 1
    /\ lpc' = IF lidx + 1 < lcount THEN "open_info" ELSE "returned"
    /\ UNCHANGED <<ListRest, listing, lcount>>

NextList ==
    \/ ListChanges
    \/ ListCount
    \/ list_open_info
    \/ list_open_referee
    \/ list_open_venue
    \/ ListAppend

SpecList == ListInit /\ [][NextList]_vars

----------------------------------------------------------------------------
(* parse_anpfiff: match_utils.py 51-77                                      *)

AnpfiffRest ==
    <<runVars, loginVars, clickVars, gateVars, genVars, parseVars, extractVars, listVars,
      matchesVars, ownVars, sessVars, metaVars, docVars,
      nameVars, zipVars>>
AnpfiffRestIdle ==
    RunIdle /\ LoginIdle /\ ClickIdle /\ GateIdle /\ GenIdle /\ ParseIdle /\ ExtractIdle
      /\ ListIdle /\ MatchesIdle /\ OwnIdle /\ SessIdle /\ MetaIdle /\ DocIdle
      /\ NameIdle /\ ZipIdle

\* A text is the sequence of its pieces: the separator, a blank, the suffix
\* and the words of a weekday, a date and a time.
Weekdays == {"Samstag", "Sonntag"}
Dates == {"08.11.2025", "09.11.2025"}
Times == {"13:00", "15:30"}

Pieces == {"·", " ", "Uhr", "Samstag", "08.11.2025", "13:00"}

\* "<weekday> · <DD.MM.YYYY> · <HH:MM> Uhr"
KickoffForm(w, d, t) == <<w, " ", "·", " ", d, " ", "·", " ", t, " ", "Uhr">>

Kickoffs ==
    {KickoffForm(w, d, t) : w \in Weekdays, d \in Dates, t \in Times}
    \cup UNION {[1..n -> Pieces] : n \in 0..MaxAnpfiff}

RECURSIVE split_on(_, _)
\* s.split(sep): the parts between the separators, one more than there are
\* separators.
split_on(s, sep) ==
    IF \A k \in DOMAIN s : s[k] # sep THEN <<s>>
    ELSE LET k == CHOOSE j \in DOMAIN s :
                    s[j] = sep /\ \A m \in 1..(j - 1) : s[m] # sep IN
           <<SubSeq(s, 1, k - 1)>> \o split_on(SubSeq(s, k + 1, Len(s)), sep)

RECURSIVE lstrip(_)
lstrip(s) == IF s # << >> /\ Head(s) = " " THEN lstrip(Tail(s)) ELSE s

RECURSIVE rstrip(_)
rstrip(s) ==
    IF s # << >> /\ s[Len(s)] = " " THEN rstrip(SubSeq(s, 1, Len(s) - 1)) ELSE s

\* s.strip()
strip(s) == rstrip(lstrip(s))

\* s.replace(old, '')
remove(s, old) == SelectSeq(s, LAMBDA x : x # old)

ParseKeepsBlanks(s) ==
    LET parts == split_on(s, "·") IN
      IF Len(parts) >= 3
      THEN [done |-> TRUE, raised |-> FALSE, datum |-> parts[2],
            uhrzeit |-> remove(parts[3], "Uhr")]
      ELSE [done |-> TRUE, raised |-> FALSE, datum |-> s, uhrzeit |-> << >>]

\* parse_anpfiff (68-77)
parse_anpfiff(s) ==
    LET parts == split_on(s, "·") IN
      IF Len(parts) >= 3
      THEN [done |-> TRUE, raised |-> FALSE, datum |-> strip(parts[2]),
            uhrzeit |-> strip(remove(parts[3], "Uhr"))]
      ELSE [done |-> TRUE, raised |-> FALSE, datum |-> s, uhrzeit |-> << >>]

AnpfiffInit ==
    /\ AnpfiffRestIdle
    /\ anpfiff \in Kickoffs
    /\ anpResult = NotParsedAnpfiff

ParseAnpfiff ==
    /\ ~anpResult.done
    /\ anpResult' = parse_anpfiff(anpfiff)
    /\ UNCHANGED <<AnpfiffRest, anpfiff>>

NextAnpfiff == ParseAnpfiff

SpecAnpfiff == AnpfiffInit /\ [][NextAnpfiff]_vars

----------------------------------------------------------------------------
(* GET /api/matches: main_api.py 293-370                                    *)

MatchesRest ==
    <<runVars, loginVars, clickVars, gateVars, genVars, parseVars, extractVars, listVars,
      anpfiffVars, ownVars, sessVars, metaVars, docVars,
      nameVars, zipVars>>
MatchesRestIdle ==
    RunIdle /\ LoginIdle /\ ClickIdle /\ GateIdle /\ GenIdle /\ ParseIdle /\ ExtractIdle
      /\ ListIdle /\ AnpfiffIdle /\ OwnIdle /\ SessIdle /\ MetaIdle /\ DocIdle
      /\ NameIdle /\ ZipIdle

\* The date inside a kick-off text as <<day, month, year>>; << >> is a text
\* without a date.  The second date is the later day of the earlier month.
KickoffDates == {<<8, 11, 2025>>, <<9, 10, 2025>>, << >>}

\* extract_iso_date_from_anpfiff (96-100): year, month, day; the text form
\* "YYYY-MM-DD" compares as this tuple does.
extract_iso_date_from_anpfiff(a) ==
    IF a = << >> THEN <<1900, 1, 1>> ELSE <<a[3], a[2], a[1]>>

KeepSlash(text, old, new) == text

\* str.replace on a text of pieces in which old is a piece of its own.
replace(text, old, new) == [k \in DOMAIN text |-> IF text[k] = old THEN new ELSE text[k]]

\* generate_filename_from_match (31-48): the name up to the date and the date
\* "DD-MM-YYYY" before ".docx"; the date part has a fixed length, so two names
\* are equal exactly if both parts are.
generate_filename_from_match(m) ==
    [name |-> <<"Spesen_">> \o replace(m.heim_team, "/", "-") \o <<"_vs_">>
                \o replace(m.gast_team, "/", "-") \o <<"_">>,
     datum |-> IF m.anpfiff = << >> THEN <<1, 1, 2000>> ELSE m.anpfiff]

\* String order of two ISO dates.
IsoLess(a, b) ==
    \/ a[1] < b[1]
    \/ a[1] = b[1] /\ a[2] < b[2]
    \/ a[1] = b[1] /\ a[2] = b[2] /\ a[3] < b[3]

\* The matches a spesen_data.json can hold: a match without a home team, and
\* matches of one pairing on the dates above.
StoredMatches ==
    {[heim_team |-> << >>, gast_team |-> <<"Gast">>, anpfiff |-> << >>]}
    \cup {[heim_team |-> <<"Heim">>, gast_team |-> <<"Gast">>, anpfiff |-> a] :
            a \in KickoffDates}

MatchLists ==
    {<< >>} \cup {<<m>> : m \in StoredMatches}
    \cup {l \in [1..2 -> StoredMatches] : l[1] # l[2]}

\* A session folder: missing, without spesen_data.json, or with the file and
\* documents of some of its matches.
Folders ==
    {[folder |-> FALSE, json |-> FALSE, matches |-> << >>, files |-> {}],
     [folder |-> TRUE, json |-> FALSE, matches |-> << >>, files |-> {}]}
    \cup UNION {{[folder |-> TRUE, json |-> TRUE, matches |-> ms, files |-> fs] :
                   fs \in SUBSET {generate_filename_from_match(ms[k]) : k \in DOMAIN ms}} :
                ms \in MatchLists}

\* get_user_sessions (database.py 252-256): ORDER BY created_at DESC.
SessionRows ==
    UNION {{ss \in [1..n -> [created_at : 1..MaxSessions, dir : Folders]] :
              \A j, k \in 1..n : j < k => ss[j].created_at > ss[k].created_at} :
           n \in 0..MaxSessions}

OlderSession(created_at, kept) == created_at < kept

\* db_session['created_at'] > all_matches_dict[key]['_created_at'] (348)
newer_session(created_at, kept) == created_at > kept

\* all_matches_dict as the sequence of its values in insertion order.
key_of(e) == <<e.heim_team, e.gast_team, e._datum>>

put(d, e) ==
    IF \E k \in DOMAIN d : key_of(d[k]) = key_of(e)
    THEN [k \in DOMAIN d |->
            IF key_of(d[k]) = key_of(e)
            THEN IF newer_session(e._created_at, d[k]._created_at) THEN e ELSE d[k]
            ELSE d[k]]
    ELSE Append(d, e)

RECURSIVE scan_matches(_, _, _)
\* for match in session_matches (326-353)
scan_matches(d, s, k) ==
    IF k > Len(s.dir.matches) THEN d
    ELSE LET m == s.dir.matches[k]
             filename == generate_filename_from_match(m)
             e == [heim_team |-> m.heim_team, gast_team |-> m.gast_team,
                   anpfiff |-> m.anpfiff, _session_id |-> s.created_at,
                   _datum |-> extract_iso_date_from_anpfiff(m.anpfiff),
                   _created_at |-> s.created_at, _filename |-> filename] IN
           IF m.heim_team = << >> \/ m.gast_team = << >> \/ filename \notin s.dir.files
           THEN scan_matches(d, s, k + 1)
           ELSE scan_matches(put(d, e), s, k + 1)

RECURSIVE scan_sessions(_, _, _)
\* for db_session in db_sessions (306-358)
scan_sessions(d, ss, k) ==
    IF k > Len(ss) THEN d
    ELSE IF ~ss[k].dir.folder \/ ~ss[k].dir.json
         THEN scan_sessions(d, ss, k + 1)
         ELSE scan_sessions(scan_matches(d, ss[k], 1), ss, k + 1)

RECURSIVE insert_newest(_, _)
insert_newest(e, l) ==
    IF l = << >> \/ ~IsoLess(e._datum, Head(l)._datum) THEN <<e>> \o l
    ELSE <<Head(l)>> \o insert_newest(e, Tail(l))

RECURSIVE sort_newest(_)
\* matches_list.sort(key=lambda x: x['_datum'], reverse=True) (362)
sort_newest(l) ==
    IF l = << >> THEN l ELSE insert_newest(Head(l), sort_newest(Tail(l)))

MatchesInit ==
    /\ MatchesRestIdle
    /\ sessions \in SessionRows
    /\ reply = NoReply

get_all_user_matches ==
    /\ ~reply.done
    /\ reply' = [done |-> TRUE,
                 matches |-> sort_newest(scan_sessions(<< >>, sessions, 1))]
    /\ UNCHANGED <<MatchesRest, sessions>>

NextMatches == get_all_user_matches

SpecMatches == MatchesInit /\ [][NextMatches]_vars

----------------------------------------------------------------------------
(* Generation runs and their browsers: main_api.py 132-249,                 *)
(* auto_session_scheduler.py 77-93, dfb_scraper.py 18-55                    *)

OwnRest ==
    <<runVars, loginVars, clickVars, gateVars, genVars, parseVars, extractVars, listVars,
      anpfiffVars, matchesVars, sessVars, metaVars, docVars,
      nameVars, zipVars>>
OwnRestIdle ==
    RunIdle /\ LoginIdle /\ ClickIdle /\ GateIdle /\ GenIdle /\ ParseIdle /\ ExtractIdle
      /\ ListIdle /\ AnpfiffIdle /\ MatchesIdle /\ SessIdle /\ MetaIdle /\ DocIdle
      /\ NameIdle /\ ZipIdle

Runs == 1..MaxRuns

\* The browser processes the operating system can hold at once; each has the
\* one page of its one context (dfb_scraper.py 41-45).
Browsers == 1..MaxRuns

Live == {scraper[r].browser : r \in {q \in Runs : scraper[q].phase = "started"}}

\* A run of the scheduler batch holds the event loop from its first statement
\* to its return (auto_session_scheduler.py 44-179 has no await).
TaskActive == \E r \in Runs : startedBy[r] = "task" /\ scraper[r].phase \in {"constructed", "started"}

OwnInit ==
    /\ OwnRestIdle
    /\ startedBy \in [Runs -> {"api", "task"}]
    /\ scraper = [r \in Runs |-> NoScraper]
    /\ operators = [b \in Browsers |-> {}]

\* DFBScraper(...) in the run's own frame (main.py 56, a process of
\* main_api.py 237-242; auto_session_scheduler.py 77): __init__ (18-31).
Construct(r) ==
    /\ scraper[r].phase = "none"
    /\ startedBy[r] = "task" => ~TaskActive
    /\ scraper' = [scraper EXCEPT ![r] = [phase |-> "constructed", browser |-> 0]]
    /\ UNCHANGED <<OwnRest, startedBy, operators>>

LaunchAttached(live) == Browsers

\* chromium.launch (38): a new browser process, none of the running ones.
launch(live) == Browsers \ live

\* __enter__ -> start (34-47)
Start(r) ==
    /\ scraper[r].phase = "constructed"
    /\ \E b \in launch(Live) :
         scraper' = [scraper EXCEPT ![r] = [phase |-> "started", browser |-> b]]
    /\ UNCHANGED <<OwnRest, startedBy, operators>>

\* Any method of the scraper between start and stop: it acts on self.page.
Operate(r) ==
    /\ scraper[r].phase = "started"
    /\ operators' = [operators EXCEPT ![scraper[r].browser] = @ \cup {r}]
    /\ UNCHANGED <<OwnRest, startedBy, scraper>>

\* __exit__ -> stop (49-55): the browser process ends.
Stop(r) ==
    /\ scraper[r].phase = "started"
    /\ scraper' = [scraper EXCEPT ![r] = [phase |-> "stopped", browser |-> 0]]
    /\ operators' = [operators EXCEPT ![scraper[r].browser] = {}]
    /\ UNCHANGED <<OwnRest, startedBy>>

\* The process ends, the task returns: the next run takes the place.
RunOver(r) ==
    /\ scraper[r].phase = "stopped"
    /\ scraper' = [scraper EXCEPT ![r] = NoScraper]
    /\ UNCHANGED <<OwnRest, startedBy, operators>>

NextOwn ==
    \/ \E r \in Runs : Construct(r)
    \/ \E r \in Runs : Start(r)
    \/ \E r \in Runs : Operate(r)
    \/ \E r \in Runs : Stop(r)
    \/ \E r \in Runs : RunOver(r)

SpecOwn == OwnInit /\ [][NextOwn]_vars

----------------------------------------------------------------------------
(* Sessions and their endpoints: main_api.py 198-290, 373-602, 652-686,     *)
(* auto_session_scheduler.py 66-75                                          *)

SessRest ==
    <<runVars, loginVars, clickVars, gateVars, genVars, parseVars, extractVars, listVars,
      anpfiffVars, matchesVars, ownVars, metaVars, docVars,
      nameVars, zipVars>>
SessRestIdle ==
    RunIdle /\ LoginIdle /\ ClickIdle /\ GateIdle /\ GenIdle /\ ParseIdle /\ ExtractIdle
      /\ ListIdle /\ AnpfiffIdle /\ MatchesIdle /\ OwnIdle /\ MetaIdle /\ DocIdle
      /\ NameIdle /\ ZipIdle

\* Two registered users, both logged in.
Accounts == {"anna", "ben"}

SessionIds == 1..MaxFolders

SessInit ==
    /\ SessRestIdle
    /\ madeFor = [s \in SessionIds |-> ""]
    /\ rows = [s \in SessionIds |-> ""]
    /\ answer = NoAnswer
    /\ dfb \in [Accounts -> [username : BOOLEAN, password : BOOLEAN]]
    /\ spawned = {}

CredentialsIfUsername(u) == dfb[u].username

\* get_dfb_credentials (database.py 172-196): the two columns of the user's
\* row when both hold a value, else None.
get_dfb_credentials(u) == dfb[u].username /\ dfb[u].password

\* generate_spesen (main_api.py 198-249): without stored credentials
\* CredentialsMissingError; else a new folder (227), its row (231) and the
\* process of the run (237-242).
generate_spesen(u) ==
    IF ~get_dfb_credentials(u)
    THEN /\ answer' = [endpoint |-> "generate", user |-> u, session |-> 0,
                       outcome |-> "credentials_missing", of |-> {}]
         /\ UNCHANGED <<SessRest, madeFor, rows, dfb, spawned>>
    ELSE \E s \in SessionIds :
           /\ madeFor[s] = ""
           /\ madeFor' = [madeFor EXCEPT ![s] = u]
           /\ rows' = [rows EXCEPT ![s] = u]
           /\ spawned' = spawned \cup {s}
           /\ answer' = [endpoint |-> "generate", user |-> u, session |-> s,
                         outcome |-> "in_progress", of |-> {}]
           /\ UNCHANGED <<SessRest, dfb>>

\* process_user_session (auto_session_scheduler.py 51-93): without stored
\* credentials the result no_credentials (52-60); else a new folder (67)
\* and the scraper with its browser (77-87); no statement of the scheduler
\* writes a row.
process_user_session(u) ==
    IF ~get_dfb_credentials(u)
    THEN /\ answer' = [endpoint |-> "scheduler", user |-> u, session |-> 0,
                       outcome |-> "no_credentials", of |-> {}]
         /\ UNCHANGED <<SessRest, madeFor, rows, dfb, spawned>>
    ELSE \E s \in SessionIds :
           /\ madeFor[s] = ""
           /\ madeFor' = [madeFor EXCEPT ![s] = u]
           /\ spawned' = spawned \cup {s}
           /\ answer' = [endpoint |-> "scheduler", user |-> u, session |-> s,
                         outcome |-> "started", of |-> {}]
           /\ UNCHANGED <<SessRest, rows, dfb>>

\* get_user_sessions_list (main_api.py 252-290): the rows of the user whose
\* folder exists.
get_user_sessions_list(u) ==
    /\ answer' = [endpoint |-> "sessions", user |-> u, session |-> 0, outcome |-> "ok",
                  of |-> {s \in SessionIds : rows[s] = u /\ madeFor[s] # ""}]
    /\ UNCHANGED <<SessRest, madeFor, rows, dfb, spawned>>

\* The check at the head of get_session_status (383-390), get_session_matches
\* (425-430), download_all_as_zip (472-480) and download_file (574-580).
ownership(u, s) ==
    IF rows[s] = "" THEN "not_found"
    ELSE IF rows[s] # u THEN "forbidden"
    ELSE "ok"

\* An endpoint that checks the row and then needs the folder.
Guarded(name, u, s) ==
    /\ answer' =
         IF ownership(u, s) # "ok"
         THEN [endpoint |-> name, user |-> u, session |-> s,
               outcome |-> ownership(u, s), of |-> {}]
         ELSE IF madeFor[s] = ""
         THEN [endpoint |-> name, user |-> u, session |-> s,
               outcome |-> "not_found", of |-> {}]
         ELSE [endpoint |-> name, user |-> u, session |-> s, outcome |-> "ok",
               of |-> {s}]
    /\ UNCHANGED <<SessRest, madeFor, rows, dfb, spawned>>

\* main_api.py 373-414
get_session_status(u, s) == Guarded("status", u, s)

\* main_api.py 417-452
get_session_matches(u, s) == Guarded("matches", u, s)

\* main_api.py 462-558
download_all_as_zip(u, s) == Guarded("zip", u, s)

\* main_api.py 561-602
download_file(u, s) == Guarded("file", u, s)

\* debug_session (main_api.py 652-686): no row is read; the file names and
\* the metadata of every existing folder are returned.
debug_session(u, s) ==
    /\ answer' =
         IF madeFor[s] = ""
         THEN [endpoint |-> "debug", user |-> u, session |-> s,
               outcome |-> "not_found", of |-> {}]
         ELSE [endpoint |-> "debug", user |-> u, session |-> s, outcome |-> "ok",
               of |-> {s}]
    /\ UNCHANGED <<SessRest, madeFor, rows, dfb, spawned>>

NextSess ==
    \/ \E u \in Accounts : generate_spesen(u)
    \/ \E u \in Accounts : process_user_session(u)
    \/ \E u \in Accounts : get_user_sessions_list(u)
    \/ \E u \in Accounts, s \in SessionIds : get_session_status(u, s)
    \/ \E u \in Accounts, s \in SessionIds : get_session_matches(u, s)
    \/ \E u \in Accounts, s \in SessionIds : download_all_as_zip(u, s)
    \/ \E u \in Accounts, s \in SessionIds : download_file(u, s)
    \/ \E u \in Accounts, s \in SessionIds : debug_session(u, s)

SpecSessions == SessInit /\ [][NextSess]_vars

----------------------------------------------------------------------------
(* update_session_metadata: session_manager.py 99-135                      *)

MetaRest ==
    <<runVars, loginVars, clickVars, gateVars, genVars, parseVars, extractVars, listVars,
      anpfiffVars, matchesVars, ownVars, sessVars, docVars,
      nameVars, zipVars>>
MetaRestIdle ==
    RunIdle /\ LoginIdle /\ ClickIdle /\ GateIdle /\ GenIdle /\ ParseIdle /\ ExtractIdle
      /\ ListIdle /\ AnpfiffIdle /\ MatchesIdle /\ OwnIdle /\ SessIdle /\ DocIdle
      /\ NameIdle /\ ZipIdle

\* What a caller can pass: nothing (None, the default) or a value; a list of
\* file names and a progress dictionary can be empty.
StatusArgs ==
    {[given |-> FALSE, value |-> ""]}
    \cup {[given |-> TRUE, value |-> v] : v \in {"scraping", "completed"}}
FilesArgs ==
    {[given |-> FALSE, value |-> << >>]}
    \cup {[given |-> TRUE, value |-> v] : v \in {<< >>, <<"a.docx">>, <<"b.docx">>}}
ProgressArgs ==
    {[given |-> FALSE, value |-> << >>]}
    \cup {[given |-> TRUE, value |-> v] : v \in {<< >>, <<1, 2>>}}

\* create_session (session_manager.py 63-97)
MetaInit ==
    /\ MetaRestIdle
    /\ meta = NewMetadata
    /\ call = NoCall

\* "if status:", "if files:", "if progress:" (122-127): the truth value of
\* the argument.
truthy_text(a) == a.given /\ a.value # ""
truthy_list(a) == a.given /\ a.value # << >>

\* update_session_metadata (99-135)
update_session_metadata ==
    /\ meta.updated_at < MaxUpdates
    /\ \E st \in StatusArgs, fl \in FilesArgs, pr \in ProgressArgs :
         /\ call' = [made |-> TRUE, status |-> st, files |-> fl, progress |-> pr]
         /\ meta' = [meta EXCEPT
                       !.status = IF truthy_text(st) THEN st.value ELSE @,
                       !.files = IF truthy_list(fl) THEN fl.value ELSE @,
                       !.progress = IF truthy_list(pr) THEN pr.value ELSE @,
                       !.updated_at = @ + 1]
    /\ UNCHANGED MetaRest

NextMeta == update_session_metadata

SpecMeta == MetaInit /\ [][NextMeta]_vars

----------------------------------------------------------------------------
(* calculate_spesen and generate_document: spesen_calculator.py 17-203,     *)
(* docx_generator.py 43-98, 215-280                                         *)

DocRest ==
    <<runVars, loginVars, clickVars, gateVars, genVars, parseVars, extractVars, listVars,
      anpfiffVars, matchesVars, ownVars, sessVars, metaVars,
      nameVars, zipVars>>
DocRestIdle ==
    RunIdle /\ LoginIdle /\ ClickIdle /\ GateIdle /\ GenIdle /\ ParseIdle /\ ExtractIdle
      /\ ListIdle /\ AnpfiffIdle /\ MatchesIdle /\ OwnIdle /\ SessIdle /\ MetaIdle
      /\ NameIdle /\ ZipIdle

\* A text is the sequence of its word pieces; "x in text" is: the pieces of x
\* stand side by side in the text.
contains(text, x) ==
    \E k \in 0..(Len(text) - Len(x)) : SubSeq(text, k + 1, k + Len(x)) = x

lower_piece(p) ==
    CASE p = "Kreis" -> "kreis"
      [] p = "Verbands" -> "verbands"
      [] p = "Landes" -> "landes"
      [] p = "Bundes" -> "bundes"
      [] p = "Pokal" -> "pokal"
      [] p = "Freundschaft" -> "freundschaft"
      [] p = "Kleinfeld" -> "kleinfeld"
      [] p = "Herren" -> "herren"
      [] p = "Alte" -> "alte"
      [] p = "Frauen" -> "frauen"
      [] p = "A-" -> "a-"
      [] p = "D-" -> "d-"
      [] p = "Junioren" -> "junioren"
      [] p = "Juniorinnen" -> "juniorinnen"
      [] OTHER -> p

\* str.lower()
lower(text) == [k \in DOMAIN text |-> lower_piece(text[k])]

KlassePieces ==
    {"Kreis", "ober", "liga", "klasse", "Verbands", "Landes", "Bundes", "Pokal",
     "Freundschaft", "Kleinfeld"}

\* The Spielklasse of a record: missing (the empty text), a name of the
\* portal, or any short text.
Spielklassen ==
    {<<"Kreis", "ober", "liga">>, <<"1.", "Kreis", "klasse">>, <<"Kreis", "pokal", "Herren">>,
     <<"Kreis", "liga", " ", "Kleinfeld">>}
    \cup UNION {[1..n -> KlassePieces] : n \in 0..MaxPieces}

Mannschaftsarten ==
    {<< >>, <<"Herren">>, <<"Alte", " ", "Herren">>, <<"Frauen">>, <<"A-", "Junioren">>,
     <<"D-", "Junioren">>, <<"A-", "Juniorinnen">>}

\* The first referee of a rolle: none, one without a name, one with a name.
RefereeKinds == {"absent", "unnamed", "named"}

Euro(n) == [some |-> TRUE, euro |-> n]

\* SPESEN_MAENNER (17-24), in the order of the dictionary.
SPESEN_MAENNER ==
    <<[key |-> <<"verbands", "liga">>, sr |-> Euro(50), sra |-> Euro(40)],
      [key |-> <<"landes", "klasse">>, sr |-> Euro(40), sra |-> Euro(30)],
      [key |-> <<"landes", "meisterschaft">>, sr |-> Euro(40), sra |-> Euro(30)],
      [key |-> <<"kreis", "ober", "liga">>, sr |-> Euro(30), sra |-> Euro(25)],
      [key |-> <<"kreis", "liga">>, sr |-> Euro(25), sra |-> Euro(23)],
      [key |-> <<"kreis", "klasse">>, sr |-> Euro(25), sra |-> Euro(23)]>>

\* SPESEN_FRAUEN (30-34)
SPESEN_FRAUEN ==
    <<[key |-> <<"verbands", "liga">>, sr |-> Euro(25), sra |-> Euro(20)],
      [key |-> <<"landes", "klasse">>, sr |-> Euro(25), sra |-> Euro(20)],
      [key |-> <<"kreis", "ober", "liga">>, sr |-> Euro(20), sra |-> NoAmount]>>

Pair(a, b) == [sr |-> a, sra |-> b]

\* for key, spesen in table.items(): if key in spielklasse: return spesen
lookup(table, spielklasse, otherwise) ==
    IF \E k \in DOMAIN table : contains(spielklasse, table[k].key)
    THEN LET k == CHOOSE j \in DOMAIN table :
                    /\ contains(spielklasse, table[j].key)
                    /\ \A m \in 1..(j - 1) : ~contains(spielklasse, table[m].key) IN
           Pair(table[k].sr, table[k].sra)
    ELSE otherwise

\* _is_ueberregional (80-89)
_is_ueberregional(spielklasse) ==
    \E x \in {<<"bundes", "liga">>, <<"regional", "liga">>, <<"ober", "liga">>, <<"dfb">>,
              <<"nachwuchs", "liga">>} : contains(spielklasse, x)

\* _is_maenner (92-94)
_is_maenner(m) == contains(m, <<"herren">>) \/ contains(m, <<"männer">>)

\* _is_frauen_oder_juniorinnen (97-99)
_is_frauen_oder_juniorinnen(m) ==
    \E x \in {"frauen", "damen", "juniorinnen", "mädchen"} : contains(m, <<x>>)

\* _is_junioren (102-105)
_is_junioren(m) == contains(m, <<"junioren">>) /\ ~contains(m, <<"juniorinnen">>)

\* _is_kreisebene (108-110)
_is_kreisebene(spielklasse) == contains(spielklasse, <<"kreis">>)

\* _calc_maenner (113-132)
_calc_maenner(spielklasse, m) ==
    IF contains(m, <<"alte">>) /\ contains(spielklasse, <<"kleinfeld">>)
    THEN Pair(Euro(20), NoAmount)
    ELSE lookup(SPESEN_MAENNER, spielklasse,
                IF _is_kreisebene(spielklasse) THEN Pair(Euro(25), Euro(23))
                ELSE Pair(NoAmount, NoAmount))

\* _calc_frauen (135-155)
_calc_frauen(spielklasse, m) ==
    IF contains(m, <<"juniorinnen">>) \/ contains(m, <<"mädchen">>)
    THEN Pair(Euro(20), NoAmount)
    ELSE lookup(SPESEN_FRAUEN, spielklasse,
                IF _is_kreisebene(spielklasse) THEN Pair(Euro(20), NoAmount)
                ELSE Pair(NoAmount, NoAmount))

\* _calc_junioren (158-187)
_calc_junioren(spielklasse, m) ==
    LET d_or_younger == \E x \in {"d-", "e-", "f-", "g-"} : contains(m, <<x, "junioren">>)
        c_or_younger == d_or_younger \/ contains(m, <<"c-", "junioren">>) IN
      IF _is_kreisebene(spielklasse)
      THEN IF c_or_younger THEN Pair(Euro(20), Euro(15)) ELSE Pair(Euro(23), Euro(18))
      ELSE IF d_or_younger \/ contains(spielklasse, <<"talenteliga">>)
                \/ contains(spielklasse, <<"kleinfeld">>)
      THEN Pair(Euro(20), NoAmount)
      ELSE Pair(Euro(25), Euro(20))

\* calculate_spesen (44-77)
calculate_spesen(spielklasse, mannschaftsart) ==
    IF spielklasse = << >> \/ mannschaftsart = << >> THEN Pair(NoAmount, NoAmount)
    ELSE LET sk == lower(spielklasse)
             m == lower(mannschaftsart) IN
           IF _is_ueberregional(sk) THEN Pair(NoAmount, NoAmount)
           ELSE IF _is_maenner(m) THEN _calc_maenner(sk, m)
           ELSE IF _is_frauen_oder_juniorinnen(m) THEN _calc_frauen(sk, m)
           ELSE IF _is_junioren(m) THEN _calc_junioren(sk, m)
           ELSE Pair(NoAmount, NoAmount)

\* format_spesen (190-203): the euros and cents of the text, or the empty
\* text.
format_spesen(betrag) == IF betrag.some THEN <<betrag.euro, 0>> ELSE << >>

\* _determine_checkboxes (56-63): the box of the kind of the match.
match_box(spielklasse) ==
    IF contains(spielklasse, <<"pokal">>) THEN "CHECKBOX_POKALSPIEL"
    ELSE IF contains(spielklasse, <<"freundschaft">>) THEN "CHECKBOX_FREUNDSCHAFT"
    ELSE "CHECKBOX_PUNKTSPIEL"

TeamBoxWithJunioren(m) ==
    {"CHECKBOX_MAENNER"} \cup
      (IF contains(m, <<"junioren">>) THEN {"CHECKBOX_A_JUN"} ELSE {})

\* _determine_checkboxes (65-89): the boxes of the kind of the team.
team_box(m) ==
    IF contains(m, <<"herren">>) \/ contains(m, <<"männer">>)
    THEN IF contains(m, <<"alte">>) THEN {"CHECKBOX_ALTE_HERREN"} ELSE {"CHECKBOX_MAENNER"}
    ELSE IF contains(m, <<"frauen">>) THEN {"CHECKBOX_FRAUEN"}
    ELSE IF contains(m, <<"mädchen">>) THEN {"CHECKBOX_MAEDCHEN"}
    ELSE IF contains(m, <<"a-", "junioren">>) THEN {"CHECKBOX_A_JUN"}
    ELSE IF contains(m, <<"b-", "junioren">>) THEN {"CHECKBOX_B_JUN"}
    ELSE IF contains(m, <<"c-", "junioren">>) THEN {"CHECKBOX_C_JUN"}
    ELSE IF contains(m, <<"d-", "junioren">>) THEN {"CHECKBOX_D_JUN"}
    ELSE IF contains(m, <<"e-", "junioren">>) THEN {"CHECKBOX_E_JUN"}
    ELSE IF contains(m, <<"f-", "junioren">>) THEN {"CHECKBOX_F_JUN"}
    ELSE {"CHECKBOX_SONSTIGE"}

\* _determine_checkboxes (43-91): the boxes that are True.
_determine_checkboxes(match) ==
    {match_box(lower(match.spielklasse))} \cup team_box(lower(match.mannschaftsart))

SraAlways(text, referee) == text

\* sra_spesen_str if sra.get('name') else '' (257-258)
sra_field(text, referee) == IF referee = "named" THEN text ELSE << >>

\* _calculate_spesen_for_match (215-231)
_calculate_spesen_for_match(match, is_punktspiel) ==
    IF ~is_punktspiel THEN Pair(<< >>, << >>)
    ELSE LET s == calculate_spesen(match.spielklasse, match.mannschaftsart) IN
           Pair(format_spesen(s.sr), format_spesen(s.sra))

DocInit ==
    /\ DocRestIdle
    /\ docMatch \in [spielklasse : Spielklassen, mannschaftsart : Mannschaftsarten,
                     sra1 : RefereeKinds, sra2 : RefereeKinds]
    /\ spesen = NoSpesen
    /\ doc = NoDoc

CalculateSpesen ==
    /\ ~spesen.done
    /\ LET s == calculate_spesen(docMatch.spielklasse, docMatch.mannschaftsart) IN
         spesen' = [done |-> TRUE, sr |-> s.sr, sra |-> s.sra]
    /\ UNCHANGED <<DocRest, docMatch, doc>>

\* generate_document (233-291), the boxes and the expense fields.
generate_document ==
    /\ ~doc.done
    /\ LET checkboxes == _determine_checkboxes(docMatch)
           texts == _calculate_spesen_for_match(docMatch,
                                                "CHECKBOX_PUNKTSPIEL" \in checkboxes) IN
         doc' = [done |-> TRUE, boxes |-> checkboxes, SR_Spesen |-> texts.sr,
                 SR1_Spesen |-> sra_field(texts.sra, docMatch.sra1),
                 SR2_Spesen |-> sra_field(texts.sra, docMatch.sra2)]
    /\ UNCHANGED <<DocRest, docMatch, spesen>>

NextDoc == CalculateSpesen \/ generate_document

SpecDoc == DocInit /\ [][NextDoc]_vars

----------------------------------------------------------------------------
(* The documents of one session: main.py 128-147, docx_generator.py         *)
(* 284-291, match_utils.py 13-48                                            *)

NamesRest ==
    <<runVars, loginVars, clickVars, gateVars, genVars, parseVars, extractVars, listVars,
      anpfiffVars, matchesVars, ownVars, sessVars, metaVars, docVars, zipVars>>
NamesRestIdle ==
    RunIdle /\ LoginIdle /\ ClickIdle /\ GateIdle /\ GenIdle /\ ParseIdle /\ ExtractIdle
      /\ ListIdle /\ AnpfiffIdle /\ MatchesIdle /\ OwnIdle /\ SessIdle /\ MetaIdle
      /\ DocIdle /\ ZipIdle

\* Names of home teams: "SG A" followed by up to MaxPieces pieces.
TeamNames == {<<"SG A">> \o t : t \in UNION {[1..n -> {"/", "-", "B"}] : n \in 0..MaxPieces}}

\* The matches of a scrape: one guest, the kick-off dates of above and the
\* first day of 2000.
ScrapedMatches ==
    [heim_team : TeamNames, gast_team : {<<"Gast">>},
     anpfiff : KickoffDates \cup {<<1, 1, 2000>>}]

\* key = (heim, gast, datum) (main_api.py 344-345)
dedup_key(m) == <<m.heim_team, m.gast_team, extract_iso_date_from_anpfiff(m.anpfiff)>>

NamesInit ==
    /\ NamesRestIdle
    /\ matches_data \in [1..2 -> ScrapedMatches]
    /\ output_dir = {}
    /\ docIdx = 0

\* One round of the loop of generate_documents_in_session (main.py 131-147):
\* generate_document names the file and doc.save writes it, over a file of
\* that name if there is one (docx_generator.py 284-289).
save_document ==
    /\ docIdx < Len(matches_data)
    /\ LET output_filename == generate_filename_from_match(matches_data[docIdx + 1]) IN
         output_dir' = {f \in output_dir : f.file # output_filename}
                         \cup {[file |-> output_filename, of |-> docIdx + 1]}
    /\ docIdx' = docIdx + 1
    /\ UNCHANGED <<NamesRest, matches_data>>

NextNames == save_document

SpecNames == NamesInit /\ [][NextNames]_vars

----------------------------------------------------------------------------
(* The ZIP download of a session: main_api.py 132-197, 225-242, 462-558     *)

ZipRest ==
    <<runVars, loginVars, clickVars, gateVars, genVars, parseVars, extractVars, listVars,
      anpfiffVars, matchesVars, ownVars, sessVars, metaVars, docVars, nameVars>>
ZipRestIdle ==
    RunIdle /\ LoginIdle /\ ClickIdle /\ GateIdle /\ GenIdle /\ ParseIdle /\ ExtractIdle
      /\ ListIdle /\ AnpfiffIdle /\ MatchesIdle /\ OwnIdle /\ SessIdle /\ MetaIdle
      /\ DocIdle /\ NameIdle

ZipInit ==
    /\ ZipRestIdle
    /\ zipRow = NoRow
    /\ zipDir = NoDir
    /\ zipAnswer = NoZipAnswer

\* generate_spesen (227-231): the folder of the session, then its row with
\* the status "pending" (database.py 215-218).
ZipCreateSession(u) ==
    /\ ~zipRow.some
    /\ zipDir' = [zipDir EXCEPT !.exists = TRUE]
    /\ zipRow' = [some |-> TRUE, user_id |-> u, status |-> "pending"]
    /\ UNCHANGED <<ZipRest, zipAnswer>>

\* run_generation_process (164)
ZipRunScraping ==
    /\ zipRow.some /\ zipRow.status = "pending"
    /\ zipRow' = [zipRow EXCEPT !.status = "scraping"]
    /\ UNCHANGED <<ZipRest, zipDir, zipAnswer>>

\* run_generation_process (173-180)
ZipRunGenerating ==
    /\ zipRow.some /\ zipRow.status = "scraping"
    /\ zipRow' = [zipRow EXCEPT !.status = "generating"]
    /\ UNCHANGED <<ZipRest, zipDir, zipAnswer>>

\* generate_documents_in_session (main.py 131-134): one more document.
ZipRunDocument ==
    /\ zipRow.some /\ zipRow.status = "generating"
    /\ zipDir.docx < MaxMatches
    /\ zipDir' = [zipDir EXCEPT !.docx = @ + 1]
    /\ UNCHANGED <<ZipRest, zipRow, zipAnswer>>

\* run_generation_process (186-187)
ZipRunCompleted ==
    /\ zipRow.some /\ zipRow.status = "generating"
    /\ zipRow' = [zipRow EXCEPT !.status = "completed"]
    /\ UNCHANGED <<ZipRest, zipDir, zipAnswer>>

\* run_generation_process (191-197): an exception of the scrape, no match,
\* or an exception of the generation.
ZipRunFailed ==
    /\ zipRow.some /\ zipRow.status \in {"scraping", "generating"}
    /\ zipRow' = [zipRow EXCEPT !.status = "failed"]
    /\ UNCHANGED <<ZipRest, zipDir, zipAnswer>>

NoDocxAlwaysNotFound(db_status) == 404

\* download_all_as_zip (510-525): the answer when the folder holds no DOCX
\* file.
no_docx_code(db_status) ==
    IF db_status \in {"pending", "in_progress", "scraping", "generating"} THEN 425
    ELSE IF db_status = "failed" THEN 500
    ELSE 404

\* download_all_as_zip (462-558) for caller u; zipped says whether the
\* ZipFile block ended without an exception.
ZipDownload(u, zipped) ==
    /\ IF ~zipRow.some
       THEN /\ zipAnswer' = [made |-> TRUE, user |-> u, code |-> 404]
            /\ UNCHANGED zipDir
       ELSE IF zipRow.user_id # u
       THEN /\ zipAnswer' = [made |-> TRUE, user |-> u, code |-> 403]
            /\ UNCHANGED zipDir
       ELSE IF ~zipDir.exists
       THEN /\ zipAnswer' = [made |-> TRUE, user |-> u, code |-> 404]
            /\ UNCHANGED zipDir
       ELSE IF zipDir.docx = 0
       THEN /\ zipAnswer' = [made |-> TRUE, user |-> u, code |-> no_docx_code(zipRow.status)]
            /\ UNCHANGED zipDir
       ELSE /\ zipAnswer' = [made |-> TRUE, user |-> u, code |-> IF zipped THEN 200 ELSE 500]
            /\ zipDir' = [zipDir EXCEPT !.zip = TRUE]
    /\ UNCHANGED <<ZipRest, zipRow>>

NextZip ==
    \/ \E u \in Accounts : ZipCreateSession(u)
    \/ ZipRunScraping
    \/ ZipRunGenerating
    \/ ZipRunDocument
    \/ ZipRunCompleted
    \/ ZipRunFailed
    \/ \E u \in Accounts, zipped \in BOOLEAN : ZipDownload(u, zipped)

SpecZip == ZipInit /\ [][NextZip]_vars

----------------------------------------------------------------------------
(* Properties                                                               *)

MatchSteps ==
    {"open_info", "extract_info", "close_info", "open_referee", "extract_referee",
     "close_referee", "open_venue", "extract_venue", "close_venue"}

ThrewIdx == {t[1] : t \in threw}

RecordIdx == {all_matches[j].idx : j \in 1..Len(all_matches)}

Indexes == 0..(anzahl_spiele - 1)

\* C1: an exception of a modal step or of the per-match callback never leaves
\* scrape_all_matches (the only calls an exception leaves it from are
\* get_all_matches and the initial callback); the loop visits every index, and
\* the list it ends with holds exactly the indexes none of whose modal steps
\* raised.
C1_PerMatchIsolation ==
    /\ raisedFrom \notin (MatchSteps \cup {"progress_callback"})
    /\ pc \in MatchSteps \cup {"finish_match"} => i \in Indexes
    /\ pc = "scraped" =>
         /\ i = anzahl_spiele
         /\ RecordIdx = Indexes \ ThrewIdx
         /\ Len(all_matches) = Cardinality(RecordIdx)

C1_Witness ==
    /\ pc = "scraped"
    /\ anzahl_spiele = 2
    /\ <<0, "open_referee">> \in threw
    /\ RecordIdx = {1}

\* The precondition of C2: the loop is over, a modal step of exactly one match
\* raised and no callback did.
OnlyOneThrew ==
    /\ pc = "scraped"
    /\ Cardinality(ThrewIdx) = 1
    /\ cbThrew = {}

TheThrown == CHOOSE k \in ThrewIdx : TRUE

\* C2 as stated: N-1 records, N callback calls, current running 1, 2, ..., N.
C2_Original ==
    OnlyOneThrew =>
      /\ Len(all_matches) = anzahl_spiele - 1
      /\ Len(progress) = anzahl_spiele
      /\ \A j \in 1..Len(progress) : progress[j][1] = j

\* C2 amended: when a modal step of match k, and of no other match, raises and
\* no callback raises, the list holds N-1 records (k's excluded) and the
\* callback was called exactly N times, total being N each time and current
\* strictly increasing: 0 for the initial call, then i+1 for every completed
\* index i, so k+1 is left out.
C2_OneFailure ==
    OnlyOneThrew =>
      /\ Len(all_matches) = anzahl_spiele - 1
      /\ TheThrown \notin RecordIdx
      /\ Len(progress) = anzahl_spiele
      /\ \A j \in 1..Len(progress) :
           /\ progress[j][2] = anzahl_spiele
           /\ progress[j][1] = IF j - 1 <= TheThrown THEN j - 1 ELSE j

C2_Witness ==
    /\ OnlyOneThrew
    /\ anzahl_spiele = 2
    /\ TheThrown = 0
    /\ progress = <<<<0, 2>>, <<2, 2>>>>

\* C3 as stated: on a page that shows no match the scrape returns the empty
\* list after one callback (0, 0) and raises nothing.  (page = "tab" at the
\* end of the body: the navigation succeeded, so the scrape was called.)
C3_Original ==
    (pageMatches = 0 /\ page = "tab" /\ pc = "exit") =>
      /\ exc = "none"
      /\ all_matches = <<>>
      /\ progress = <<<<0, 0>>>>

\* C4 as stated: a match whose venue step raised after both other extractions
\* still has a record, with its spiel_info and schiedsrichter.
C4_Original ==
    pc = "scraped" =>
      \A k \in Indexes :
        (\E st \in {"open_venue", "close_venue"} : <<k, st>> \in threw) =>
          \E j \in 1..Len(all_matches) :
            /\ all_matches[j].idx = k
            /\ all_matches[j].spiel_info # "unset"
            /\ all_matches[j].schiedsrichter # "unset"

\* C5 as stated: no dialog is shown when close_modal has returned.
C5_Original ==
    pc \in {"open_referee", "open_venue", "finish_match"} => modal = "none"

\* C6 as stated: no modal trigger is ever clicked while a dialog is shown.
C6_Original == ~stacked

Submitted == loginResult # "pending" /\ cred.username /\ cred.password /\ obs.form

\* C7 as stated: (a) off the auth sub-domain: success; (b) error element
\* visible: invalid credentials with the portal's text; (c) password field
\* visible: generic invalid credentials; otherwise success.
C7_Original ==
    Submitted =>
      loginResult =
        (IF ~obs.onAuth THEN "success"
         ELSE IF obs.errVisible = "yes" THEN "invalid_portal_text"
         ELSE IF obs.pwVisible = "yes" THEN "invalid_generic"
         ELSE "success")

\* C7 amended: the three checks in this order, where a check whose calls raise
\* does not fire: (a) off the auth sub-domain: success, whatever (b) and (c)
\* would show; (b) the error element is visible and its text is read: invalid
\* credentials with that text, an exception inside (b) being swallowed; (c) the
\* password field is visible: generic invalid credentials, an exception of
\* this check leaving login as a generic error; otherwise success.
C7_TriCheck ==
    Submitted =>
      /\ ~obs.onAuth => loginResult = "success"
      /\ (obs.onAuth /\ obs.errVisible = "yes" /\ obs.errText)
           => loginResult = "invalid_portal_text"
      /\ (obs.onAuth /\ ~(obs.errVisible = "yes" /\ obs.errText))
           => loginResult = (CASE obs.pwVisible = "yes" -> "invalid_generic"
                               [] obs.pwVisible = "throws" -> "Exception"
                               [] OTHER -> "success")

C7_Witness ==
    /\ Submitted
    /\ obs.onAuth
    /\ obs.errVisible = "throws"
    /\ obs.pwVisible = "yes"
    /\ loginResult = "invalid_generic"

\* C8 as stated: a rejected pair never makes login return normally, and what
\* it raises is not the type of a generic failure.
C8_Original ==
    (Submitted /\ ~cred.accepted) =>
      /\ loginResult \in {"invalid_portal_text", "invalid_generic"}
      /\ ExcOf(loginResult) # ExcOf("Exception")

BodyEntered == pc = "left" /\ raisedFrom # "start"

TornDown == playwright # "running" /\ browser # "running"

\* C9 as stated: when the with-block is left after its body ran, the browser
\* and the automation process have been stopped.
C9_Original == BodyEntered => TornDown

\* C10 as stated: after a failure of start() or of browser.close() in stop(),
\* no automation process and no browser process is left running.
C10_Original == (pc = "left" /\ raisedFrom \in {"start", "stop"}) => TornDown

\* The calls whose exception ends the run: authentication, navigation and the
\* count of the match list.
Fatal == {"open_dfbnet", "click_login", "login", "navigate_to_schiriansetzung",
          "get_all_matches"}

BodyOver == pc \in {"exit", "left", "propagated", "returned"}

\* C13: an exception of a fatal call ends the body with no match list and no
\* spesen_data.json; a body that ended without writing the file carries an
\* exception; the exception leaves scrape_matches_with_session with the
\* status failed, and the function returns only without an exception and
\* with the file written.
C13_FatalPropagates ==
    /\ raisedFrom \in Fatal =>
         /\ exc # "none"
         /\ pc \in {"exit", "left", "propagated"}
         /\ all_matches = << >>
         /\ ~written
    /\ (BodyOver /\ ~written) => exc # "none"
    /\ pc = "propagated" => exc # "none" /\ status = "failed"
    /\ pc = "returned" => exc = "none" /\ written

C13_Witness ==
    /\ pc = "propagated"
    /\ raisedFrom = "get_all_matches"
    /\ status = "failed"
    /\ ~written

\* C17: whatever accept_cookies meets (banner accepted, absent or already
\* dismissed, click failing, banner staying after the click), it returns
\* without an exception and the flow stands at the following click_login.
C17_CookiesReturn ==
    /\ raisedFrom # "accept_cookies"
    /\ last.call = "accept_cookies" =>
         /\ last.o \in CookieOutcomes
         /\ exc = "none"
         /\ pc \in {"click_login_1", "click_login_2"}

C17_Witness ==
    /\ last = [call |-> "accept_cookies", o |-> "stays"]
    /\ pc = "click_login_2"
    /\ exc = "none"

\* Where the run stands while scrape_all_matches works on self.page.
OnList ==
    pc \in {"get_all_matches", "initial_progress", "finish_match", "scraped"} \cup MatchSteps

\* C18: after a successful navigate_to_schiriansetzung self.page is the new
\* tab, and the count of the list and every step of every match run with
\* self.page on that tab; a navigation that fails (no new tab within the
\* timeout among the causes) raises, ends the run, and leaves self.page on
\* the original page.
C18_PageSwitch ==
    /\ OnList => page = "tab" /\ last = [call |-> "navigate_to_schiriansetzung", o |-> "ok"]
    /\ (last.call = "navigate_to_schiriansetzung" /\ last.o = "ok") => page = "tab"
    /\ (last.call = "navigate_to_schiriansetzung" /\ last.o # "ok") =>
         /\ page = "first"
         /\ exc # "none"
         /\ pc \in {"exit", "left", "propagated"}
         /\ anzahl_spiele = 0
         /\ all_matches = << >>

C18_Witness ==
    /\ last = [call |-> "navigate_to_schiriansetzung", o |-> "no_tab"]
    /\ raisedFrom = "navigate_to_schiriansetzung"
    /\ page = "first"
    /\ pc = "propagated"

ClickCalled == clickResult # NotClicked

\* The strategies whose element is visible, and those whose click returns.
VisibleAt == {k \in 1..NumSelectors : clickObs[k] \in {"clicked", "click_fails"}}
ClickableAt == {k \in 1..NumSelectors : clickObs[k] = "clicked"}

Lowest(K) == CHOOSE k \in K : \A j \in K : k <= j

InLoop == pc \in MatchSteps \cup {"finish_match"}

\* The steps of one iteration (653-677), numbered in the order they run.
StepNo ==
    [s \in MatchSteps \cup {"finish_match"} |->
       CASE s = "open_info" -> 1 [] s = "extract_info" -> 2 [] s = "close_info" -> 3
         [] s = "open_referee" -> 4 [] s = "extract_referee" -> 5
         [] s = "close_referee" -> 6 [] s = "open_venue" -> 7
         [] s = "extract_venue" -> 8 [] s = "close_venue" -> 9
         [] OTHER -> 10]

StepsPerMatch == Cardinality(DOMAIN StepNo)

\* Steps the loop can still take at most: the rest of this iteration and all
\* of the following ones.
Remaining ==
    IF InLoop THEN (anzahl_spiele - i) * StepsPerMatch - (StepNo[pc] - 1) ELSE 0

\* C20: scrape_all_matches terminates whatever the portal does.  Inside the
\* loop a step is always possible (a wait that runs out raises, it never
\* blocks), every step lowers the number of steps still to take and stays in
\* the loop or ends it, a step that raises ends the iteration with the match
\* skipped, and the loop ends after exactly anzahl_spiele iterations, every
\* one of which either appended its record or was skipped.
C20_Terminates ==
    /\ [](InLoop => (ENABLED Next /\ Remaining > 0 /\ i < anzahl_spiele))
    /\ [](pc = "scraped" =>
            /\ i = anzahl_spiele
            /\ \A k \in Indexes : (k \in RecordIdx) # (k \in ThrewIdx))
    /\ [][InLoop => /\ Remaining' < Remaining
                    /\ pc' \in MatchSteps \cup {"finish_match", "scraped"}
                    /\ i' \in {i, i + 1}
                    /\ (threw' # threw => i' = i + 1 /\ all_matches' = all_matches)]_vars

C20_Witness ==
    /\ pc = "scraped"
    /\ i = anzahl_spiele
    /\ anzahl_spiele >= 2
    /\ <<0, "close_info">> \in threw
    /\ <<1, "open_venue">> \in threw
    /\ all_matches = << >>

\* The tasks that hold a permit, and the generation runs that own a browser.
Holders == {u \in Users : task[u] \in {"acquired", "scraping", "leaving"}}

ScrapeSessions == Cardinality({u \in Users : task[u] = "scraping"}) + apiRunning

\* C11 as stated: at most max_concurrent scrape sessions are in progress at
\* the same time, the runs of the batch and the runs started by
\* POST /api/generate counted together.
C11_Original == ScrapeSessions <= max_concurrent

\* C12: a task runs its body only while it holds a permit it acquired, every
\* permit taken is given back on every way the body ends, and when
\* create_sessions_for_all_users has finished all max_concurrent permits are
\* free.
C12_GateReleased ==
    /\ permits \in 0..max_concurrent
    /\ permits + Cardinality(Holders) = max_concurrent
    /\ \A u \in Users : task[u] \in {"none", "pending", "done"} => u \notin Holders
    /\ \A u \in Users : taskResult[u] # "none" => task[u] \in {"leaving", "done"}
    /\ batch = "finished" =>
         /\ permits = max_concurrent
         /\ \A u \in Users : task[u] = "done" /\ taskResult[u] # "none"
    /\ batch = "idle" => permits = max_concurrent

C12_Witness ==
    /\ batch = "finished"
    /\ permits = max_concurrent
    /\ \E u \in Users : taskResult[u] = "no_credentials"
    /\ \E u \in Users : taskResult[u] = "scrape_error"
    /\ \E u \in Users : taskResult[u] = "error"

FailureStatuses == {"failed", "error"}

Rollen == {<<"SR">>, <<"SRA", "1">>, <<"SRA", "2">>, <<"Beo">>}

\* The role a header of the form "<rolle> <name>" starts with.
RolleOf(h) == CHOOSE r \in Rollen : Len(h) > Len(r) /\ SubSeq(h, 1, Len(r)) = r

OfTheForm(h) == \E r \in Rollen : Len(h) > Len(r) /\ SubSeq(h, 1, Len(r)) = r

\* C15 as stated: a header of the form "<rolle> <name>" is parsed into that
\* rolle and the whole remainder as name, and no referee that is appended has
\* a rolle outside SR, SRA 1, SRA 2, Beo.
C15_Original ==
    parsed.done =>
      /\ OfTheForm(header) =>
           /\ parsed.appended
           /\ parsed.rolle = RolleOf(header)
           /\ parsed.name = SubSeq(header, Len(parsed.rolle) + 1, Len(header))
      /\ parsed.appended => parsed.rolle \in Rollen

\* The fields of the called extractor whose read succeeds.
Extractable == {f \in Range(FieldsOf(exKind)) : exObs[f] = "present"}

\* C16 as stated: whichever fields of the modal are absent or fail to be
\* read, the extractor raises nothing and returns every field that was
\* extractable: only the absent and the failing ones are missing.
C16_Original ==
    exResult.done =>
      /\ ~exResult.raised
      /\ exResult.fields = Extractable

\* The step that follows each step of an iteration when nothing raises
\* (653-677).
StepAfter ==
    [s \in MatchSteps |->
       CASE s = "open_info" -> "extract_info" [] s = "extract_info" -> "close_info"
         [] s = "close_info" -> "open_referee" [] s = "open_referee" -> "extract_referee"
         [] s = "extract_referee" -> "close_referee" [] s = "close_referee" -> "open_venue"
         [] s = "open_venue" -> "extract_venue" [] s = "extract_venue" -> "close_venue"
         [] OTHER -> "finish_match"]

\* The calls are made in the order of the protocol: within an index the next
\* step of the list, and from the end of an index (its last step or the step
\* that raised) the first step of the next index.
CallOrder ==
    [][(InLoop /\ pc # "finish_match") =>
         ((i' = i /\ pc' = StepAfter[pc])
            \/ (i' = i + 1 /\ pc' = LoopEntry(anzahl_spiele, i + 1)))]_vars

\* C24 as stated: the steps of every match run in the order open, extract,
\* close for the info, the referee and the venue modal, index after index,
\* and the modal before is closed when the referee and the venue modal are
\* opened.
C24_Original ==
    /\ CallOrder
    /\ [](pc \in {"open_referee", "open_venue"} => modal = "none")

\* The callbacks made so far that report a completed match.
Completions == {j \in 1..Len(progress) : progress[j][1] >= 1}

\* C25: no modal step runs before the first callback, which is (0, N); every
\* later callback reports current = k+1 for an index k whose record has been
\* appended; total is N in every callback, current is strictly increasing
\* and between 0 and total, and there are as many callbacks with current >= 1
\* as records.
C25_ProgressEvents ==
    /\ (pc \in MatchSteps \cup {"finish_match", "scraped"} \/ threw # {} \/ all_matches # << >>)
         => Len(progress) >= 1
    /\ progress # << >> => progress[1] = <<0, anzahl_spiele>>
    /\ \A j \in 1..Len(progress) :
         /\ progress[j][2] = anzahl_spiele
         /\ 0 <= progress[j][1] /\ progress[j][1] <= progress[j][2]
         /\ j >= 2 => progress[j][1] - 1 \in RecordIdx
         /\ \A k \in 1..Len(progress) : j < k => progress[j][1] < progress[k][1]
    /\ Cardinality(Completions) = Len(all_matches)

C25_Witness ==
    /\ pc = "scraped"
    /\ progress = << <<0, 2>>, <<2, 2>> >>
    /\ Len(all_matches) = 1
    /\ <<0, "extract_venue">> \notin threw
    /\ <<0, "open_venue">> \in threw

\* The keys of a record (idx is the list position it was built for).
RecordKeys == {"spiel_info", "schiedsrichter", "spielstaette"}

\* C27: the list holds at most one record per index, in increasing index
\* order, at most anzahl_spiele of them, and in every record exactly the keys
\* spiel_info, schiedsrichter and spielstaette have been assigned.
C27_ListOrder ==
    /\ Len(all_matches) <= anzahl_spiele
    /\ \A j \in 1..Len(all_matches) :
         /\ all_matches[j].idx \in Indexes
         /\ DOMAIN all_matches[j] = RecordKeys \cup {"idx"}
         /\ \A f \in RecordKeys : all_matches[j][f] # "unset"
         /\ \A k \in 1..Len(all_matches) :
              j < k => all_matches[j].idx < all_matches[k].idx

C27_Witness ==
    /\ pc = "scraped"
    /\ anzahl_spiele = 2
    /\ Len(all_matches) = 2
    /\ all_matches[1].idx = 0
    /\ all_matches[2].idx = 1
    /\ cbThrew = {0}

\* C26 as stated: the three parts of every record come from the same match
\* of the portal, whatever the portal does to the rendered list between the
\* open steps.
C26_Original ==
    \A j \in 1..Len(lrecs) :
      /\ lrecs[j].spiel_info = lrecs[j].schiedsrichter
      /\ lrecs[j].schiedsrichter = lrecs[j].spielstaette

Separators == {k \in DOMAIN anpfiff : anpfiff[k] = "·"}

\* C23: parse_anpfiff never raises; a text "<weekday> · <date> · <time> Uhr"
\* gives the date and the time without blanks and without the suffix, and a
\* text with fewer than three parts (fewer than two separators) gives the
\* text itself as date and an empty time.
C23_ParseAnpfiff ==
    anpResult.done =>
      /\ ~anpResult.raised
      /\ \A w \in Weekdays, d \in Dates, t \in Times :
           anpfiff = KickoffForm(w, d, t) =>
             anpResult.datum = <<d>> /\ anpResult.uhrzeit = <<t>>
      /\ Cardinality(Separators) < 2 =>
           anpResult.datum = anpfiff /\ anpResult.uhrzeit = << >>

C23_Witness ==
    /\ anpfiff = KickoffForm("Samstag", "08.11.2025", "13:00")
    /\ anpResult = [done |-> TRUE, raised |-> FALSE, datum |-> <<"08.11.2025">>,
                    uhrzeit |-> <<"13:00">>]

\* The session holds a match of this key together with its document.
HoldsKey(s, key) ==
    /\ s.dir.folder /\ s.dir.json
    /\ \E k \in DOMAIN s.dir.matches :
         LET m == s.dir.matches[k] IN
           /\ m.heim_team # << >> /\ m.gast_team # << >>
           /\ <<m.heim_team, m.gast_team, extract_iso_date_from_anpfiff(m.anpfiff)>> = key
           /\ generate_filename_from_match(m) \in s.dir.files

\* C22: the reply of GET /api/matches holds at most one match per key (home
\* team, guest team, date); each match is taken from the newest of the
\* user's sessions that hold the match with its document; and the matches
\* are ordered by date, newest first.
C22_Dedupe ==
    reply.done =>
      /\ \A j, k \in DOMAIN reply.matches :
           j # k => key_of(reply.matches[j]) # key_of(reply.matches[k])
      /\ \A j \in DOMAIN reply.matches :
           LET e == reply.matches[j] IN
             \E k \in DOMAIN sessions :
               /\ sessions[k].created_at = e._session_id
               /\ HoldsKey(sessions[k], key_of(e))
               /\ \A n \in DOMAIN sessions :
                    HoldsKey(sessions[n], key_of(e)) =>
                      sessions[n].created_at <= sessions[k].created_at
      /\ \A j, k \in DOMAIN reply.matches :
           j < k => IsoLess(reply.matches[k]._datum, reply.matches[j]._datum)

\* Two sessions hold the same match with its document, the older one holds
\* a later match too: the reply has both matches, the shared one from the
\* newer session.
C22_Witness ==
    /\ reply.done
    /\ Len(sessions) = 2
    /\ Len(reply.matches) = 2
    /\ \E j \in DOMAIN reply.matches :
         /\ reply.matches[j]._session_id = sessions[1].created_at
         /\ HoldsKey(sessions[2], key_of(reply.matches[j]))
    /\ \E j \in DOMAIN reply.matches :
         reply.matches[j]._session_id = sessions[2].created_at

Started == {r \in Runs : scraper[r].phase = "started"}

Lifecycle == <<"in_progress", "scraping", "generating">>
TerminalStatuses == {"completed", "failed"}

\* The place of a status in the lifecycle; the terminal values come last.
Stage(st) ==
    IF st \in TerminalStatuses THEN Len(Lifecycle) + 1
    ELSE CHOOSE k \in DOMAIN Lifecycle : Lifecycle[k] = st

C29_Original ==
    /\ \A s \in SessionIds : madeFor[s] # "" => rows[s] = madeFor[s]
    /\ answer.endpoint = "sessions" =>
         answer.of = {s \in SessionIds : madeFor[s] = answer.user}

SessionEndpoints == {"status", "matches", "file", "zip", "debug"}

\* C30 as stated: a user who asks a session endpoint for a session that is
\* not theirs gets an authorization or not-found error and nothing of the
\* session.
C30_Original ==
    (answer.endpoint \in SessionEndpoints /\ madeFor[answer.session] # answer.user) =>
      /\ answer.outcome \in {"forbidden", "not_found"}
      /\ answer.of = {}

\* The result dictionaries of process_user_session, by what they report.
TaskDicts == {"no_credentials", "error", "scrape_error", "no_matches", "completed"}

\* C31: every task of a batch ends with a result dictionary and never with
\* an exception, and when the batch is over every user's task has run to its
\* end with a result of its own: no_credentials (or a caught error) exactly
\* for the users without credentials, whatever the other tasks ended with.
C31_BatchIsolation ==
    /\ \A u \in Users : taskResult[u] \in {"none"} \cup TaskDicts
    /\ \A u \in Users : task[u] = "done" => taskResult[u] \in TaskDicts
    /\ batch = "finished" =>
         \A u \in Users :
           /\ task[u] = "done"
           /\ taskResult[u] = "no_credentials" => ~hasCreds[u]
           /\ ~hasCreds[u] => taskResult[u] \in {"no_credentials", "error"}

\* A batch is over in which one user was skipped, one user's scrape failed
\* and a third user's documents were generated.
C31_Witness ==
    /\ batch = "finished"
    /\ \E u, v, w \in Users :
         /\ taskResult[u] = "no_credentials"
         /\ taskResult[v] = "scrape_error"
         /\ taskResult[w] = "completed"

Stored(u) == dfb[u].username /\ dfb[u].password

\* C32: a user who has not both credentials stored has no session folder,
\* no session row and no process or browser, and what such a user was last
\* told is CredentialsMissingError by POST /api/generate and no_credentials
\* by the scheduler.
C32_NoSideEffect ==
    \A u \in Accounts :
      ~Stored(u) =>
        /\ \A s \in SessionIds : madeFor[s] # u /\ rows[s] # u
        /\ \A s \in spawned : madeFor[s] # u
        /\ (answer.user = u /\ answer.endpoint = "generate") =>
             answer.outcome = "credentials_missing"
        /\ (answer.user = u /\ answer.endpoint = "scheduler") =>
             answer.outcome = "no_credentials"

\* The scheduler has skipped a user with a stored username and no stored
\* password, while the other user has sessions.
C32_Witness ==
    /\ answer.endpoint = "scheduler"
    /\ answer.outcome = "no_credentials"
    /\ dfb[answer.user].username /\ ~dfb[answer.user].password
    /\ spawned # {}

\* C33 as stated: a call of update_session_metadata leaves session_id and
\* created_at alone and sets updated_at; it leaves status, files and progress
\* alone when they are not passed; and files passed as a list, the empty
\* list included, become the stored files.
C33_Original ==
    [][/\ meta'.session_id = meta.session_id
       /\ meta'.created_at = meta.created_at
       /\ meta'.updated_at # meta.updated_at
       /\ ~call'.status.given => meta'.status = meta.status
       /\ ~call'.files.given => meta'.files = meta.files
       /\ ~call'.progress.given => meta'.progress = meta.progress
       /\ call'.files.given => meta'.files = call'.files.value]_vars

\* C34 as stated: when the generation of a session is completed, every
\* match was attempted once, the files of the metadata name exactly the
\* documents that were written, and progress.current is the number of
\* documents that were generated.
C34_Original ==
    genFinal # NoFinal =>
      /\ genFinal.attempts = genMatches
      /\ genFinal.listed = genFiles
      /\ genFinal.current = genFiles

\* The amounts calculate_spesen returned for the record.
Returned(sr, sra) == spesen.sr = sr /\ spesen.sra = sra

Herren == _is_maenner(lower(docMatch.mannschaftsart))
    /\ ~contains(lower(docMatch.mannschaftsart), <<"alte">>)

Klasse(x) == contains(lower(docMatch.spielklasse), x)

\* C35 (as stated): for a Herren team calculate_spesen returns (30, 25) when
\* the Spielklasse contains Kreisoberliga, (50, 40) for Verbandsliga,
\* (40, 30) for Landesklasse and (25, 23) for Kreisliga or Kreisklasse; it
\* returns (None, None) only for the supra-regional classes, for missing
\* inputs and for classes without a table entry.
C35_Original ==
    (spesen.done /\ Herren) =>
      /\ Klasse(<<"kreis", "ober", "liga">>) => Returned(Euro(30), Euro(25))
      /\ Klasse(<<"verbands", "liga">>) => Returned(Euro(50), Euro(40))
      /\ Klasse(<<"landes", "klasse">>) => Returned(Euro(40), Euro(30))
      /\ (Klasse(<<"kreis", "liga">>) \/ Klasse(<<"kreis", "klasse">>))
           => Returned(Euro(25), Euro(23))

MatchBoxes ==
    {"CHECKBOX_PUNKTSPIEL", "CHECKBOX_POKALSPIEL", "CHECKBOX_FREUNDSCHAFT"}

TeamBoxes ==
    {"CHECKBOX_MAENNER", "CHECKBOX_FRAUEN", "CHECKBOX_MAEDCHEN", "CHECKBOX_ALTE_HERREN",
     "CHECKBOX_SONSTIGE", "CHECKBOX_A_JUN", "CHECKBOX_B_JUN", "CHECKBOX_C_JUN",
     "CHECKBOX_D_JUN", "CHECKBOX_E_JUN", "CHECKBOX_F_JUN"}

\* C36: in every generated document exactly one of the boxes PUNKTSPIEL,
\* POKALSPIEL, FREUNDSCHAFT is marked, ENTSCHEIDUNG is not, and exactly one of
\* the team boxes is marked, also when spielklasse or mannschaftsart is
\* missing.
C36_OneBoxEach ==
    doc.done =>
      /\ Cardinality(doc.boxes \cap MatchBoxes) = 1
      /\ Cardinality(doc.boxes \cap TeamBoxes) = 1
      /\ "CHECKBOX_ENTSCHEIDUNG" \notin doc.boxes
      /\ doc.boxes \subseteq MatchBoxes \cup TeamBoxes

\* A document of a record without spielklasse and without mannschaftsart:
\* PUNKTSPIEL and SONSTIGE are marked.
C36_Witness ==
    /\ doc.done
    /\ docMatch.spielklasse = << >> /\ docMatch.mannschaftsart = << >>
    /\ doc.boxes = {"CHECKBOX_PUNKTSPIEL", "CHECKBOX_SONSTIGE"}

\* C37: a document of a match that is not a Punktspiel has the three expense
\* fields empty, and a document has the expense field of SRA 1 (SRA 2) filled
\* only if the record holds a referee of that rolle with a name.
C37_OnlyLeagueMatches ==
    doc.done =>
      /\ "CHECKBOX_PUNKTSPIEL" \notin doc.boxes
           => doc.SR_Spesen = << >> /\ doc.SR1_Spesen = << >> /\ doc.SR2_Spesen = << >>
      /\ doc.SR1_Spesen # << >> => docMatch.sra1 = "named"
      /\ doc.SR2_Spesen # << >> => docMatch.sra2 = "named"

\* A Punktspiel with rates for both roles, a named SRA 1 and an SRA 2
\* without a name: the fields of the SR and of SRA 1 are filled, that of
\* SRA 2 is empty.
C37_Witness ==
    /\ doc.done
    /\ "CHECKBOX_PUNKTSPIEL" \in doc.boxes
    /\ docMatch.sra1 = "named" /\ docMatch.sra2 = "unnamed"
    /\ doc.SR_Spesen = <<25, 0>> /\ doc.SR1_Spesen = <<23, 0>> /\ doc.SR2_Spesen = << >>

\* C38 (as stated): two matches of one session whose de-duplication keys
\* (heim_team, gast_team, date) differ get different file names, so after the
\* generation each of them has its document in the folder.
C38_Original ==
    (docIdx = 2 /\ dedup_key(matches_data[1]) # dedup_key(matches_data[2]))
      => /\ generate_filename_from_match(matches_data[1])
              # generate_filename_from_match(matches_data[2])
         /\ {f.of : f \in output_dir} = {1, 2}

\* A ZIP download by the owner of the session while its folder holds no DOCX
\* file.
EmptyDownload ==
    /\ zipAnswer' # zipAnswer
    /\ zipRow.some /\ zipRow.user_id = zipAnswer'.user
    /\ zipDir.exists /\ zipDir.docx = 0

\* C39: a ZIP download of an own session without DOCX files answers 425 while
\* the status of the row is pending, in_progress, scraping or generating,
\* 500 when it is failed and 404 otherwise, and creates no ZIP file.
C39_ZipStates ==
    [][EmptyDownload =>
         /\ zipRow.status \in {"pending", "in_progress", "scraping", "generating"}
              => zipAnswer'.code = 425
         /\ zipRow.status = "failed" => zipAnswer'.code = 500
         /\ zipRow.status \notin {"pending", "in_progress", "scraping", "generating", "failed"}
              => zipAnswer'.code = 404
         /\ ~zipDir'.zip]_vars

\* The owner was answered 500 for a failed run without documents, and the
\* folder holds no ZIP file.
C39_Witness ==
    /\ zipAnswer.made /\ zipAnswer.code = 500
    /\ zipRow.some /\ zipRow.user_id = zipAnswer.user /\ zipRow.status = "failed"
    /\ zipDir.docx = 0 /\ ~zipDir.zip

====
